---- MODULE Spec2Model ----
(***************************************************************************)
(* Jobly backend: the partial-update builder (helpers/sql.js), the dynamic *)
(* filter queries, updates and removals of the Company and Job models, the *)
(* store they issue their statements to, and the guarded jobs routes with  *)
(* their middleware (middleware/auth.js).                                  *)
(*                                                                         *)
(* SQL text is a sequence of lexemes.  Text that comes from the caller     *)
(* (payload keys, search strings) is kept one character per lexeme, so a   *)
(* quote or a wildcard inside it stays visible; the fixed words of the     *)
(* source's template literals are one lexeme each.                         *)
(***************************************************************************)
EXTENDS Integers, Sequences, FiniteSets, TLC

VARIABLES
    companies,  \* rows of table companies
    jobs,       \* rows of table jobs
    op,         \* "idle", or the name of the call that has just run
    args,       \* the arguments of that call
    result,     \* its outcome: a returned value or a thrown error
    stmts,      \* the statements the call handed to db.query, in order
    writes,     \* how many calls have changed a table so far
    jobIdSeq,   \* the id the next inserted job gets
    pc,         \* the function of a route's chain that runs next
    steps       \* the functions of the chain that have run, in order

vars == <<companies, jobs, op, args, result, stmts, writes, jobIdSeq, pc, steps>>

----------------------------------------------------------------------------
(* Bounds of the model *)

MaxKeyLen == 2
MaxKeys == 2
MaxNum == 3
MaxWrites == 2

----------------------------------------------------------------------------
(* JavaScript values *)

Undef == [t |-> "undefined", v |-> 0]
Num(n) == [t |-> "number", v |-> n]
Str(s) == [t |-> "string", v |-> s]
Bool(b) == [t |-> "boolean", v |-> b]
Obj(o) == [t |-> "object", v |-> o]

\* Number(text) of a text that is no number
NaN == [t |-> "NaN", v |-> 0]

\* ToBoolean: undefined, 0, NaN, "" and false are falsy
Truthy(x) ==
    CASE x.t = "undefined" -> FALSE
      [] x.t = "number" -> x.v # 0
      [] x.t = "string" -> x.v # <<>>
      [] x.t = "boolean" -> x.v
      [] x.t = "object" -> TRUE
      [] x.t = "NaN" -> FALSE

\* a > b on the values the filters receive: numbers compare numerically,
\* undefined converts to NaN and every comparison with NaN is false
JsGreater(a, b) == a.t = "number" /\ b.t = "number" /\ a.v > b.v

\* any truthy value taken for true
IsTrue_Truthy(x) == Truthy(x)

\* strict equality with the boolean true
IsTrue(x) == x.t = "boolean" /\ x.v = TRUE

\* An object literal: its own properties in insertion order
ObjectKeys(obj) == [i \in 1..Len(obj) |-> obj[i].k]
ObjectValues(obj) == [i \in 1..Len(obj) |-> obj[i].v]

\* obj[key], undefined when obj has no such property
Get(obj, key) ==
    IF \E i \in 1..Len(obj) : obj[i].k = key
    THEN obj[CHOOSE i \in 1..Len(obj) : obj[i].k = key].v
    ELSE Undef

DigitChars == <<"0", "1", "2", "3", "4", "5", "6", "7", "8", "9">>

\* Number -> decimal text, as template interpolation does
RECURSIVE NumToStr(_)
NumToStr(n) ==
    IF n < 10 THEN <<DigitChars[n + 1]>>
    ELSE NumToStr(n \div 10) \o <<DigitChars[(n % 10) + 1]>>

\* ${x} inside a template literal
JsToString(x) ==
    CASE x.t = "string" -> x.v
      [] x.t = "number" -> NumToStr(x.v)
      [] x.t = "boolean" -> IF x.v THEN <<"true">> ELSE <<"false">>
      [] x.t = "undefined" -> <<"undefined">>

\* Array.prototype.join
RECURSIVE Join(_, _)
Join(parts, sep) ==
    IF parts = <<>> THEN <<>>
    ELSE IF Len(parts) = 1 THEN parts[1]
    ELSE parts[1] \o sep \o Join(Tail(parts), sep)

----------------------------------------------------------------------------
(* Reading SQL text *)

IsDigit(c) == \E d \in 1..10 : DigitChars[d] = c
DigitVal(c) == (CHOOSE d \in 1..10 : DigitChars[d] = c) - 1

\* length of the run of digits a text starts with
RECURSIVE DigitRun(_)
DigitRun(text) ==
    IF text # <<>> /\ IsDigit(Head(text)) THEN 1 + DigitRun(Tail(text)) ELSE 0

\* decimal text -> number
RECURSIVE StrToNum(_)
StrToNum(ds) ==
    IF ds = <<>> THEN 0
    ELSE StrToNum(SubSeq(ds, 1, Len(ds) - 1)) * 10 + DigitVal(ds[Len(ds)])

\* the indexes of the $n placeholders of a text, in order of appearance
RECURSIVE Placeholders(_)
Placeholders(text) ==
    IF text = <<>> THEN <<>>
    ELSE LET n == DigitRun(Tail(text))
         IN  IF Head(text) = "$" /\ n > 0
             THEN <<StrToNum(SubSeq(text, 2, 1 + n))>>
                      \o Placeholders(SubSeq(text, 2 + n, Len(text)))
             ELSE Placeholders(Tail(text))

\* the text cut after each placeholder
RECURSIVE PlaceholderSegments(_)
PlaceholderSegments(text) ==
    IF \A i \in 1..Len(text) : ~(text[i] = "$" /\ DigitRun(SubSeq(text, i + 1, Len(text))) > 0)
    THEN <<>>
    ELSE LET i == CHOOSE j \in 1..Len(text) :
                     /\ text[j] = "$" /\ DigitRun(SubSeq(text, j + 1, Len(text))) > 0
                     /\ \A h \in 1..(j - 1) :
                            ~(text[h] = "$" /\ DigitRun(SubSeq(text, h + 1, Len(text))) > 0)
             n == DigitRun(SubSeq(text, i + 1, Len(text)))
         IN  <<SubSeq(text, 1, i + n)>>
                 \o PlaceholderSegments(SubSeq(text, i + n + 1, Len(text)))

Contains(text, sub) ==
    \E j \in 1..(Len(text) - Len(sub) + 1) : SubSeq(text, j, j + Len(sub) - 1) = sub

EndsWith(text, suffix) ==
    /\ Len(text) >= Len(suffix)
    /\ SubSeq(text, Len(text) - Len(suffix) + 1, Len(text)) = suffix

Count(text, lexeme) == Cardinality({i \in 1..Len(text) : text[i] = lexeme})

----------------------------------------------------------------------------
(* helpers/sql.js *)

BadRequestError == "BadRequestError"
UnauthorizedError == "UnauthorizedError"
TypeError == "TypeError"
NoError == ""
NotFoundError == "NotFoundError"
StoreError == "StoreError"

NoValue == <<>>
Returned(x) == [type |-> "return", error |-> "", value |-> x]
Thrown(e) == [type |-> "throw", error |-> e, value |-> NoValue]

\* the map never consulted
ColName_NoMap(jsToSql, colName) == colName

\* jsToSql[colName] || colName
ColName(jsToSql, colName) ==
    IF colName \in DOMAIN jsToSql /\ jsToSql[colName] # <<>>
    THEN jsToSql[colName]
    ELSE colName

\* the placeholder numbered from 0
ColFragment_ZeroBased(jsToSql, colName, idx) ==
    <<"\"">> \o ColName(jsToSql, colName) \o <<"\"", "=", "$">> \o NumToStr(idx)

\* `"${jsToSql[colName] || colName}"=$${idx + 1}`
ColFragment(jsToSql, colName, idx) ==
    <<"\"">> \o ColName(jsToSql, colName) \o <<"\"", "=", "$">> \o NumToStr(idx + 1)

\* keys.map((colName, idx) => ...)
Cols(keys, jsToSql) ==
    [i \in 1..Len(keys) |-> ColFragment(jsToSql, keys[i], i - 1)]

\* the empty payload let through
sqlForPartialUpdate_NoCheck(dataToUpdate, jsToSql) ==
    LET keys == ObjectKeys(dataToUpdate)
    IN  Returned([setCols |-> Join(Cols(keys, jsToSql), <<",", " ">>),
                  values |-> ObjectValues(dataToUpdate)])

\* the values written into the text instead of bound
sqlForPartialUpdate_ValuesInText(dataToUpdate, jsToSql) ==
    LET keys == ObjectKeys(dataToUpdate)
    IN  IF Len(keys) = 0 THEN Thrown(BadRequestError)
        ELSE Returned([setCols |->
                           Join([i \in 1..Len(keys) |->
                                    <<"\"">> \o ColName(jsToSql, keys[i]) \o <<"\"", "=", "'">>
                                        \o JsToString(dataToUpdate[i].v) \o <<"'">>],
                                <<",", " ">>),
                       values |-> ObjectValues(dataToUpdate)])

sqlForPartialUpdate(dataToUpdate, jsToSql) ==
    LET keys == ObjectKeys(dataToUpdate)
    IN  IF Len(keys) = 0 THEN Thrown(BadRequestError)
        ELSE Returned([setCols |-> Join(Cols(keys, jsToSql), <<",", " ">>),
                       values |-> ObjectValues(dataToUpdate)])

----------------------------------------------------------------------------
(* The store: db.query(text, values) on tables companies and jobs *)

IndexOf(text, lexeme) ==
    IF \E i \in 1..Len(text) : text[i] = lexeme
    THEN CHOOSE i \in 1..Len(text) :
             text[i] = lexeme /\ \A h \in 1..(i - 1) : text[h] # lexeme
    ELSE 0

RECURSIVE Trim(_)
Trim(text) ==
    IF text = <<>> THEN <<>>
    ELSE IF Head(text) = " " THEN Trim(Tail(text))
    ELSE IF text[Len(text)] = " " THEN Trim(SubSeq(text, 1, Len(text) - 1))
    ELSE text

\* the text between WHERE and ORDER BY
WhereBody(sql) ==
    LET w == IndexOf(sql, "WHERE")
        o == IndexOf(sql, "ORDER")
    IN  IF w = 0 \/ o < w THEN <<>> ELSE Trim(SubSeq(sql, w + 1, o - 1))

\* a condition split at its ANDs
RECURSIVE Conjuncts(_)
Conjuncts(body) ==
    LET a == IndexOf(body, "AND")
    IN  IF a = 0 THEN <<Trim(body)>>
        ELSE <<Trim(SubSeq(body, 1, a - 1))>> \o Conjuncts(SubSeq(body, a + 1, Len(body)))

\* <column> <operator> <$n or number>
IsPredicate(p) ==
    /\ Len(p) >= 5
    /\ p[1] \in {"name", "num_employees", "title", "salary", "equity"}
    /\ p[2] = " " /\ p[4] = " "
    /\ p[3] \in {"ILIKE", ">=", "<=", ">"}
    /\ \/ p[5] = "$" /\ Len(p) > 5 /\ DigitRun(SubSeq(p, 6, Len(p))) = Len(p) - 5
       \/ DigitRun(SubSeq(p, 5, Len(p))) = Len(p) - 4

UsesPlaceholder(p) == p[5] = "$"
PlaceholderOf(p) == StrToNum(SubSeq(p, 6, Len(p)))

Operand(p, values) ==
    IF UsesPlaceholder(p) THEN values[PlaceholderOf(p)]
    ELSE Num(StrToNum(SubSeq(p, 5, Len(p))))

\* the letters that occur in stored names and titles
Lower(c) == CASE c = "C" -> "c" [] c = "J" -> "j" [] OTHER -> c
LowerText(text) == [i \in 1..Len(text) |-> Lower(text[i])]

\* LIKE: % matches any run of characters, _ any one character
RECURSIVE Like(_, _)
Like(text, pattern) ==
    IF pattern = <<>> THEN text = <<>>
    ELSE IF Head(pattern) = "%"
         THEN Like(text, Tail(pattern)) \/ (text # <<>> /\ Like(Tail(text), pattern))
    ELSE /\ text # <<>>
         /\ (Head(pattern) = "_" \/ Head(pattern) = Head(text))
         /\ Like(Tail(text), Tail(pattern))

Column(row, col) ==
    CASE col = "name" -> Str(row.name)
      [] col = "title" -> Str(row.title)
      [] col = "num_employees" -> Num(row.num_employees)
      [] col = "salary" -> Num(row.salary)
      [] col = "equity" -> Num(row.equity)

WellTyped(p, values) ==
    IF p[3] = "ILIKE" THEN Operand(p, values).t = "string" /\ p[1] \in {"name", "title"}
    ELSE Operand(p, values).t = "number" /\ p[1] \notin {"name", "title"}

Satisfies(row, p, values) ==
    LET x == Column(row, p[1])
        y == Operand(p, values)
    IN  CASE p[3] = "ILIKE" -> Like(LowerText(x.v), LowerText(y.v))
          [] p[3] = ">=" -> x.v >= y.v
          [] p[3] = "<=" -> x.v <= y.v
          [] p[3] = ">" -> x.v > y.v

ColumnsOf(table) ==
    IF table = "companies" THEN {"name", "num_employees"}
    ELSE {"title", "salary", "equity"}

\* a SELECT ... FROM <table> WHERE <condition> ORDER BY ...: the statement is
\* refused when the condition is missing or malformed, or when the values
\* supplied are not exactly the parameters $1..$n it refers to
SelectIsValid(sql, values) ==
    LET body == WhereBody(sql)
        table == sql[IndexOf(sql, "FROM") + 2]
        preds == Conjuncts(body)
    IN  /\ body # <<>>
        /\ \A i \in 1..Len(preds) :
              /\ IsPredicate(preds[i])
              /\ preds[i][1] \in ColumnsOf(table)
              /\ UsesPlaceholder(preds[i]) => PlaceholderOf(preds[i]) \in 1..Len(values)
              /\ WellTyped(preds[i], values)
        /\ {n \in 1..Len(values) : \E i \in 1..Len(Placeholders(sql)) :
                                       Placeholders(sql)[i] = n} = 1..Len(values)

\* num_employees AS "numEmployees", logo_url AS "logoUrl"
CompanyRow(row) ==
    [handle |-> row.handle, name |-> row.name, description |-> row.description,
     numEmployees |-> row.num_employees, logoUrl |-> row.logo_url]

\* company_handle AS "companyHandle"
JobRow(row) ==
    [id |-> row.id, title |-> row.title, salary |-> row.salary,
     equity |-> row.equity, companyHandle |-> row.company_handle]

\* the rows a valid SELECT yields (as a set: their ORDER BY order is not kept)
SelectRows(sql, values) ==
    LET preds == Conjuncts(WhereBody(sql))
        table == sql[IndexOf(sql, "FROM") + 2]
        Match(row) == \A i \in 1..Len(preds) : Satisfies(row, preds[i], values)
    IN  IF table = "companies"
        THEN {CompanyRow(row) : row \in {r \in companies : Match(r)}}
        ELSE {JobRow(row) : row \in {r \in jobs : Match(r)}}

\* a SELECT ... FROM <table> ORDER BY ... with no condition and no values
SelectAllIsValid(sql, values) ==
    /\ IndexOf(sql, "WHERE") = 0
    /\ IndexOf(sql, "FROM") > 0
    /\ Len(sql) >= IndexOf(sql, "FROM") + 2
    /\ sql[IndexOf(sql, "FROM") + 2] \in {"companies", "jobs"}
    /\ values = <<>>

\* every row of the table a SELECT without condition reads
AllRows(sql) ==
    IF sql[IndexOf(sql, "FROM") + 2] = "companies"
    THEN {CompanyRow(row) : row \in companies}
    ELSE {JobRow(row) : row \in jobs}

DbQuery(sql, values) ==
    IF SelectAllIsValid(sql, values) THEN [ok |-> TRUE, rows |-> AllRows(sql)]
    ELSE IF SelectIsValid(sql, values)
    THEN [ok |-> TRUE, rows |-> SelectRows(sql, values)]
    ELSE [ok |-> FALSE, rows |-> {}]


\* a column name spelled out of the characters of an identifier
RECURSIVE Spell(_)
Spell(chars) == IF chars = <<>> THEN "" ELSE Head(chars) \o Spell(Tail(chars))

\* the text between two words of a statement
Between(sql, from, to) ==
    LET f == IndexOf(sql, from)
        t == IndexOf(sql, to)
    IN  IF f = 0 \/ t < f THEN <<>> ELSE Trim(SubSeq(sql, f + 1, t - 1))

\* a SET list read as "column"=$n, "column"=$n, ...: the columns and
\* parameter numbers it names, or not ok when it does not read that way
RECURSIVE Assignments(_)
Assignments(text) ==
    LET bad == [ok |-> FALSE, list |-> <<>>]
    IN  IF Len(text) < 6 \/ text[1] # "\"" THEN bad
        ELSE LET close == CHOOSE j \in 2..(Len(text) + 1) :
                              /\ (j = Len(text) + 1 \/ text[j] = "\"")
                              /\ \A h \in 2..(j - 1) : text[h] # "\""
                 rest == SubSeq(text, close, Len(text))
                 n == DigitRun(SubSeq(rest, 4, Len(rest)))
                 after == SubSeq(rest, 4 + n, Len(rest))
                 this == [col |-> SubSeq(text, 2, close - 1),
                          n |-> StrToNum(SubSeq(rest, 4, 3 + n))]
             IN  IF close = 2 \/ Len(rest) < 4 \/ n = 0 THEN bad
                 ELSE IF rest[2] # "=" \/ rest[3] # "$" THEN bad
                 ELSE IF after = <<>> THEN [ok |-> TRUE, list |-> <<this>>]
                 ELSE IF Len(after) < 3 \/ after[1] # "," \/ after[2] # " " THEN bad
                 ELSE LET more == Assignments(SubSeq(after, 3, Len(after)))
                      IN  IF more.ok THEN [ok |-> TRUE, list |-> <<this>> \o more.list]
                          ELSE bad

\* the columns a statement may assign, and the key a row is found by
TextColumns(table) ==
    IF table = "companies" THEN {"name", "description", "logo_url"} ELSE {"title"}

NumberColumns(table) ==
    IF table = "companies" THEN {"num_employees"} ELSE {"salary", "equity"}

KeyColumn(table) == IF table = "companies" THEN "handle" ELSE "id"

IsNumeral(text) == text # <<>> /\ DigitRun(text) = Len(text)

\* parameters reach the store as text and are read as the column's type
Storable(table, column, v) ==
    \/ column \in TextColumns(table) \/ column = "handle"
    \/ (column \in NumberColumns(table) \/ column = "id") /\ IsNumeral(JsToString(v))

Stored(table, column, v) ==
    IF column \in TextColumns(table) \/ column = "handle" THEN JsToString(v)
    ELSE StrToNum(JsToString(v))

\* WHERE <key> = $n
KeyPredicate(sql, table) ==
    LET body == Between(sql, "WHERE", "RETURNING")
    IN  [ok |-> /\ Len(body) > 5
                /\ SubSeq(body, 1, 5) = <<KeyColumn(table), " ", "=", " ", "$">>
                /\ IsNumeral(SubSeq(body, 6, Len(body))),
         n |-> IF Len(body) > 5 THEN StrToNum(SubSeq(body, 6, Len(body))) ELSE 0]

AllParametersUsed(sql, values) ==
    {n \in 1..Len(values) : \E i \in 1..Len(Placeholders(sql)) :
                                Placeholders(sql)[i] = n} = 1..Len(values)

Table(name) == IF name = "companies" THEN companies ELSE jobs

Visible(table, row) == IF table = "companies" THEN CompanyRow(row) ELSE JobRow(row)

\* UPDATE <table> SET <assignments> WHERE <key> = $n RETURNING ...: refused
\* when it names a column the table lacks or the same column twice, or a
\* value cannot be read as its column's type
ValidUpdate(table, set, key, sql, values) ==
    /\ table \in {"companies", "jobs"}
    /\ set.ok
    /\ \A i \in 1..Len(set.list) :
          /\ Spell(set.list[i].col) \in TextColumns(table) \cup NumberColumns(table)
          /\ set.list[i].n \in 1..Len(values)
          /\ Storable(table, Spell(set.list[i].col), values[set.list[i].n])
          /\ \A j \in 1..Len(set.list) : set.list[i].col = set.list[j].col => i = j
    /\ key.ok
    /\ key.n \in 1..Len(values)
    /\ Storable(table, KeyColumn(table), values[key.n])
    /\ AllParametersUsed(sql, values)

UpdateIsValid(sql, values) ==
    ValidUpdate(sql[3], Assignments(Between(sql, "SET", "WHERE")),
                KeyPredicate(sql, sql[3]), sql, values)

RECURSIVE Assign(_, _, _, _)
Assign(table, row, list, values) ==
    IF list = <<>> THEN row
    ELSE Assign(table,
                [row EXCEPT ![Spell(Head(list).col)] =
                     Stored(table, Spell(Head(list).col), values[Head(list).n])],
                Tail(list), values)

\* the rows of a table whose key is the parameter of the key predicate
WithKey(table, key, values) ==
    {row \in Table(table) :
        row[KeyColumn(table)] = Stored(table, KeyColumn(table), values[key.n])}

\* the rows a statement's key predicate finds
Found(table, sql, values) == WithKey(table, KeyPredicate(sql, table), values)

\* what the store answers: whether the statement was accepted, the rows it
\* returns, and the two tables and the id sequence afterwards
Answer(rows, companiesAfter, jobsAfter, seqAfter) ==
    [ok |-> TRUE, rows |-> rows, companies |-> companiesAfter, jobs |-> jobsAfter,
     jobIdSeq |-> seqAfter]

Refusal ==
    [ok |-> FALSE, rows |-> {}, companies |-> companies, jobs |-> jobs,
     jobIdSeq |-> jobIdSeq]

\* a valid UPDATE: the rows found are replaced by their assigned versions
Updated(table, hit, changed) ==
    Answer({Visible(table, row) : row \in changed},
           IF table = "companies" THEN (companies \ hit) \cup changed ELSE companies,
           IF table = "jobs" THEN (jobs \ hit) \cup changed ELSE jobs,
           jobIdSeq)

Changed(table, hit, list, values) ==
    Updated(table, hit, {Assign(table, row, list, values) : row \in hit})

\* DELETE FROM <table> WHERE <key> = $1 RETURNING <key>
ValidDelete(table, key, sql, values) ==
    /\ table \in {"companies", "jobs"}
    /\ key.ok
    /\ key.n \in 1..Len(values)
    /\ Storable(table, KeyColumn(table), values[key.n])
    /\ AllParametersUsed(sql, values)

DeleteIsValid(sql, values) ==
    /\ Len(sql) > 5
    /\ sql[3] = "FROM"
    /\ ValidDelete(sql[5], KeyPredicate(sql, sql[5]), sql, values)

\* a valid DELETE: the rows found are gone, their keys returned
Deleted(table, hit) ==
    Answer({row[KeyColumn(table)] : row \in hit},
           IF table = "companies" THEN companies \ hit ELSE companies,
           IF table = "jobs" THEN jobs \ hit ELSE jobs,
           jobIdSeq)

\* a list split at its commas
RECURSIVE Items(_)
Items(text) ==
    IF IndexOf(text, ",") = 0 THEN <<Trim(text)>>
    ELSE <<Trim(SubSeq(text, 1, IndexOf(text, ",") - 1))>>
             \o Items(SubSeq(text, IndexOf(text, ",") + 1, Len(text)))

\* the columns and parameters of INSERT INTO jobs (<columns>) VALUES (<$n, ...>)
InsertColumns(sql) == Items(Between(sql, "(", ")"))
InsertParameters(sql) == Placeholders(Between(sql, "VALUES", "RETURNING"))

\* INSERT INTO jobs (...) VALUES (...) RETURNING ... with a value for each of the
\* four columns: refused when a value cannot be read as its column's type or
\* company_handle names no company
ValidInsert(columns, parameters, sql, values) ==
    /\ Len(sql) > 5
    /\ sql[3] = "INTO" /\ sql[5] = "jobs"
    /\ Len(columns) = Len(parameters)
    /\ \A i \in 1..Len(columns) :
          /\ Len(columns[i]) = 1
          /\ columns[i][1] \in {"title", "salary", "equity", "company_handle"}
          /\ \A j \in 1..Len(columns) : columns[i] = columns[j] => i = j
          /\ parameters[i] \in 1..Len(values)
          /\ IF columns[i][1] = "company_handle"
             THEN /\ values[parameters[i]].t = "string"
                  /\ \E row \in companies : row.handle = values[parameters[i]].v
             ELSE Storable("jobs", columns[i][1], values[parameters[i]])
    /\ \A column \in {"title", "salary", "equity", "company_handle"} :
          \E i \in 1..Len(columns) : columns[i][1] = column
    /\ AllParametersUsed(sql, values)

InsertIsValid(sql, values) ==
    ValidInsert(InsertColumns(sql), InsertParameters(sql), sql, values)

\* the value an INSERT gives a column
Given(column, columns, parameters, values) ==
    IF column = "company_handle"
    THEN values[parameters[CHOOSE i \in 1..Len(columns) : columns[i][1] = column]].v
    ELSE Stored("jobs", column,
                values[parameters[CHOOSE i \in 1..Len(columns) : columns[i][1] = column]])

\* the row a valid INSERT adds
NewJob(columns, parameters, values) ==
    [id |-> jobIdSeq,
     title |-> Given("title", columns, parameters, values),
     salary |-> Given("salary", columns, parameters, values),
     equity |-> Given("equity", columns, parameters, values),
     company_handle |-> Given("company_handle", columns, parameters, values)]

Inserted(row) == Answer({JobRow(row)}, companies, jobs \cup {row}, jobIdSeq + 1)

\* the value an INSERT's parameter list gives a column
InsertValue(column, columns, parameters, values) ==
    values[parameters[CHOOSE i \in 1..Len(columns) : columns[i][1] = column]]

CompanyColumns == {"handle", "name", "description", "num_employees", "logo_url"}

\* INSERT INTO companies (...) VALUES (...) RETURNING ... with a value for each
\* of the five columns: refused when a value cannot be read as its column's
\* type.  The table's constraints are not part of the repository: the store
\* takes any well-typed row, so a handle stays unique only if the callers
\* keep it so
ValidCompanyInsert(columns, parameters, sql, values) ==
    /\ Len(sql) > 5
    /\ sql[3] = "INTO" /\ sql[5] = "companies"
    /\ Len(columns) = Len(parameters)
    /\ \A i \in 1..Len(columns) :
          /\ Len(columns[i]) = 1
          /\ columns[i][1] \in CompanyColumns
          /\ \A j \in 1..Len(columns) : columns[i] = columns[j] => i = j
          /\ parameters[i] \in 1..Len(values)
          /\ Storable("companies", columns[i][1], values[parameters[i]])
    /\ \A column \in CompanyColumns : \E i \in 1..Len(columns) : columns[i][1] = column
    /\ AllParametersUsed(sql, values)

CompanyInsertIsValid(sql, values) ==
    ValidCompanyInsert(InsertColumns(sql), InsertParameters(sql), sql, values)

\* the row a valid INSERT INTO companies adds
NewCompany(columns, parameters, values) ==
    [column \in CompanyColumns |->
        Stored("companies", column, InsertValue(column, columns, parameters, values))]

InsertedCompany(row) ==
    Answer({CompanyRow(row)}, companies \cup {row}, jobs, jobIdSeq)

\* SELECT handle FROM companies WHERE handle = $1
LookupIsValid(sql, values) ==
    /\ sql = <<"SELECT", " ", "handle", " ", "FROM", " ", "companies", " ", "WHERE", " ",
               "handle", " ", "=", " ", "$", "1">>
    /\ Len(values) = 1

LookedUp(values) ==
    Answer({row.handle : row \in {r \in companies : r.handle = JsToString(values[1])}},
           companies, jobs, jobIdSeq)

\* the outcome of a statement that writes, or that looks a key up before a write
DbWrite(sql, values) ==
    CASE sql[1] = "UPDATE" /\ UpdateIsValid(sql, values) ->
             Changed(sql[3], Found(sql[3], sql, values),
                     Assignments(Between(sql, "SET", "WHERE")).list, values)
      [] sql[1] = "DELETE" /\ DeleteIsValid(sql, values) ->
             Deleted(sql[5], Found(sql[5], sql, values))
      [] sql[1] = "INSERT" /\ InsertIsValid(sql, values) ->
             Inserted(NewJob(InsertColumns(sql), InsertParameters(sql), values))
      [] sql[1] = "INSERT" /\ CompanyInsertIsValid(sql, values) ->
             InsertedCompany(NewCompany(InsertColumns(sql), InsertParameters(sql), values))
      [] sql[1] = "SELECT" /\ LookupIsValid(sql, values) -> LookedUp(values)
      [] OTHER -> Refusal

----------------------------------------------------------------------------
(* models/company.js: Company.filter *)

And == <<" ", "AND", " ">>

\* the wildcard left out in front
LikePattern_Prefix(x) == Str(JsToString(x) \o <<"%">>)

\* `%${name}%`, `%${title}%`
LikePattern(x) == Str(<<"%">> \o JsToString(x) \o <<"%">>)

CompanyFirstPartOfQuery ==
    <<"SELECT", " ", "handle", ",", " ", "name", ",", " ", "description", ",", " ",
      "num_employees", " ", "AS", " ", "\"", "numEmployees", "\"", ",", " ",
      "logo_url", " ", "AS", " ", "\"", "logoUrl", "\"", " ",
      "FROM", " ", "companies", " ", "WHERE">>

CompanyLastPartOfQuery == <<"ORDER", " ", "BY", " ", "name">>

\* `name ILIKE $${indexes.name}`
NameIlike(index) == <<"name", " ", "ILIKE", " ", "$">> \o NumToStr(index)
\* `num_employees >= $${indexes.minEmployees}`
MinEmployeesAtLeast(index) == <<"num_employees", " ", ">=", " ", "$">> \o NumToStr(index)
\* the placeholder written as the third, wherever the value went
MaxEmployeesAtMost_Third(index) == <<"num_employees", " ", "<=", " ", "$", "3">>

\* `num_employees <= $${indexes.maxEmployees}`
MaxEmployeesAtMost(index) == <<"num_employees", " ", "<=", " ", "$">> \o NumToStr(index)

\* the statement Company.filter composes: each criterion that is truthy pushes
\* its value, takes the array's new length as its index, and pushes its predicate
CompanyFilterQuery(query) ==
    LET name == Get(query, "name")
        minEmployees == Get(query, "minEmployees")
        maxEmployees == Get(query, "maxEmployees")
        valueArr1 == IF Truthy(name)
                     THEN <<LikePattern(name)>> ELSE <<>>
        middle1 == IF Truthy(name) THEN <<NameIlike(Len(valueArr1))>> ELSE <<>>
        valueArr2 == IF Truthy(minEmployees)
                     THEN Append(valueArr1, minEmployees) ELSE valueArr1
        middle2 == IF Truthy(minEmployees)
                   THEN Append(middle1, MinEmployeesAtLeast(Len(valueArr2))) ELSE middle1
        valueArr3 == IF Truthy(maxEmployees)
                     THEN Append(valueArr2, maxEmployees) ELSE valueArr2
        middle3 == IF Truthy(maxEmployees)
                   THEN Append(middle2, MaxEmployeesAtMost(Len(valueArr3))) ELSE middle2
    IN  [sql |-> CompanyFirstPartOfQuery \o <<" ">> \o Join(middle3, And)
                     \o <<" ">> \o CompanyLastPartOfQuery,
         values |-> valueArr3]

\* no rows returned as an empty list
FilterOutcome_EmptyList(res) ==
    IF ~res.ok THEN Thrown(StoreError) ELSE Returned(res.rows)

\* the rows or the error of a statement that was run
FilterOutcome(res) ==
    IF ~res.ok THEN Thrown(StoreError)
    ELSE IF res.rows = {} THEN Thrown(NotFoundError)
    ELSE Returned(res.rows)

\* the bounds never compared
CompanyFilterRejects_Never(query) == FALSE

CompanyFilterRejects(query) ==
    JsGreater(Get(query, "minEmployees"), Get(query, "maxEmployees"))

----------------------------------------------------------------------------
(* models/job.js: Job.filter *)

JobFirstPartOfQuery ==
    <<"SELECT", " ", "id", ",", " ", "title", ",", " ", "salary", ",", " ",
      "equity", ",", " ", "company_handle", " ", "AS", " ", "\"", "companyHandle", "\"",
      " ", "FROM", " ", "jobs", " ", "WHERE">>

JobLastPartOfQuery == <<"ORDER", " ", "BY", " ", "title">>

\* `title ILIKE $${indexes.title}`
TitleIlike(index) == <<"title", " ", "ILIKE", " ", "$">> \o NumToStr(index)
\* the bound made inclusive
SalaryAbove_Inclusive(index) == <<"salary", " ", ">=", " ", "$">> \o NumToStr(index)

\* `salary > $${indexes.minSalary}`
SalaryAbove(index) == <<"salary", " ", ">", " ", "$">> \o NumToStr(index)
\* a bound that every job meets
EquityPositive_AtLeast == <<"equity", " ", ">=", " ", "0">>

\* `equity > 0`
EquityPositive == <<"equity", " ", ">", " ", "0">>

\* the equity predicate pushed first
JobFilterQuery_EquityFirst(query) ==
    LET title == Get(query, "title")
        minSalary == Get(query, "minSalary")
        hasEquity == Get(query, "hasEquity")
        middle0 == IF IsTrue(hasEquity) THEN <<EquityPositive>> ELSE <<>>
        valueArr1 == IF Truthy(title)
                     THEN <<LikePattern(title)>> ELSE <<>>
        middle1 == IF Truthy(title)
                   THEN Append(middle0, TitleIlike(Len(valueArr1))) ELSE middle0
        valueArr2 == IF Truthy(minSalary) THEN Append(valueArr1, minSalary) ELSE valueArr1
        middle2 == IF Truthy(minSalary)
                   THEN Append(middle1, SalaryAbove(Len(valueArr2))) ELSE middle1
    IN  [sql |-> JobFirstPartOfQuery \o <<" ">> \o Join(middle2, And)
                     \o <<" ">> \o JobLastPartOfQuery,
         values |-> valueArr2]

JobFilterQuery(query) ==
    LET title == Get(query, "title")
        minSalary == Get(query, "minSalary")
        hasEquity == Get(query, "hasEquity")
        valueArr1 == IF Truthy(title)
                     THEN <<LikePattern(title)>> ELSE <<>>
        middle1 == IF Truthy(title) THEN <<TitleIlike(Len(valueArr1))>> ELSE <<>>
        valueArr2 == IF Truthy(minSalary) THEN Append(valueArr1, minSalary) ELSE valueArr1
        middle2 == IF Truthy(minSalary)
                   THEN Append(middle1, SalaryAbove(Len(valueArr2))) ELSE middle1
        middle3 == IF IsTrue(hasEquity) THEN Append(middle2, EquityPositive) ELSE middle2
    IN  [sql |-> JobFirstPartOfQuery \o <<" ">> \o Join(middle3, And)
                     \o <<" ">> \o JobLastPartOfQuery,
         values |-> valueArr2]

----------------------------------------------------------------------------
(* models/company.js, models/job.js: update and remove *)

\* the field names of the two resources, character by character
title == <<"t", "i", "t", "l", "e">>
salary == <<"s", "a", "l", "a", "r", "y">>
equity == <<"e", "q", "u", "i", "t", "y">>
name == <<"n", "a", "m", "e">>
description == <<"d", "e", "s", "c", "r", "i", "p", "t", "i", "o", "n">>
numEmployees == <<"n", "u", "m", "E", "m", "p", "l", "o", "y", "e", "e", "s">>
logoUrl == <<"l", "o", "g", "o", "U", "r", "l">>
companyHandle == <<"c", "o", "m", "p", "a", "n", "y", "H", "a", "n", "d", "l", "e">>

\* { numEmployees: "num_employees", logoUrl: "logo_url" }
CompanyFieldNames ==
    (numEmployees :> <<"n", "u", "m", "_", "e", "m", "p", "l", "o", "y", "e", "e", "s">>)
        @@ (logoUrl :> <<"l", "o", "g", "o", "_", "u", "r", "l">>)

\* the index of the last SET value used again
VarIdx_Last(values) == <<"$">> \o NumToStr(Len(values))

\* "$" + (values.length + 1)
VarIdx(values) == <<"$">> \o NumToStr(Len(values) + 1)

\* the key bound first, the text unchanged
JobUpdateQuery_IdFirst(setCols, values, id) ==
    [sql |-> <<"UPDATE", " ", "jobs", " ", "SET", " ">> \o setCols
                 \o <<" ", "WHERE", " ", "id", " ", "=", " ">> \o VarIdx(values)
                 \o <<" ", "RETURNING", " ", "id", ",", " ", "title", ",", " ",
                      "salary", ",", " ", "equity", ",", " ", "company_handle", " ",
                      "AS", " ", "\"", "companyHandle", "\"">>,
     values |-> <<id>> \o values]

\* `UPDATE jobs SET ${setCols} WHERE id = ${idIdx} RETURNING ...`, [...values, id]
JobUpdateQuery(setCols, values, id) ==
    [sql |-> <<"UPDATE", " ", "jobs", " ", "SET", " ">> \o setCols
                 \o <<" ", "WHERE", " ", "id", " ", "=", " ">> \o VarIdx(values)
                 \o <<" ", "RETURNING", " ", "id", ",", " ", "title", ",", " ",
                      "salary", ",", " ", "equity", ",", " ", "company_handle", " ",
                      "AS", " ", "\"", "companyHandle", "\"">>,
     values |-> Append(values, id)]

\* `UPDATE companies SET ${setCols} WHERE handle = ${handleVarIdx} RETURNING ...`
CompanyUpdateQuery(setCols, values, handle) ==
    [sql |-> <<"UPDATE", " ", "companies", " ", "SET", " ">> \o setCols
                 \o <<" ", "WHERE", " ", "handle", " ", "=", " ">> \o VarIdx(values)
                 \o <<" ", "RETURNING", " ", "handle", ",", " ", "name", ",", " ",
                      "description", ",", " ", "num_employees", " ", "AS", " ",
                      "\"", "numEmployees", "\"", ",", " ", "logo_url", " ", "AS", " ",
                      "\"", "logoUrl", "\"">>,
     values |-> Append(values, handle)]

\* `DELETE FROM jobs WHERE id = $1 RETURNING id`, [id]
JobRemoveQuery(id) ==
    [sql |-> <<"DELETE", " ", "FROM", " ", "jobs", " ", "WHERE", " ", "id", " ", "=",
               " ", "$", "1", " ", "RETURNING", " ", "id">>,
     values |-> <<id>>]

\* what a call amounts to: its outcome, the statements it issued, the tables
Outcome(res, issued, w) ==
    [result |-> res, stmts |-> issued, companies |-> w.companies, jobs |-> w.jobs,
     jobIdSeq |-> w.jobIdSeq]

Untouched == [companies |-> companies, jobs |-> jobs, jobIdSeq |-> jobIdSeq]

\* await db.query(q.sql, q.values): the statement with the store's answer
Query(q) == [q |-> q, res |-> DbWrite(q.sql, q.values)]

\* the missing row not noticed
UpdateOutcome_NoCheck(w) ==
    IF ~w.ok THEN Thrown(StoreError)
    ELSE IF w.rows = {} THEN Returned(Undef)
    ELSE Returned(CHOOSE row \in w.rows : TRUE)

\* const job = result.rows[0]; if (!job) throw new NotFoundError(...); return job
UpdateOutcome(w) ==
    IF ~w.ok THEN Thrown(StoreError)
    ELSE IF w.rows = {} THEN Thrown(NotFoundError)
    ELSE Returned(CHOOSE row \in w.rows : TRUE)

\* if (!company) throw new NotFoundError(...): remove returns undefined
RemoveOutcome(w) ==
    IF ~w.ok THEN Thrown(StoreError)
    ELSE IF w.rows = {} THEN Thrown(NotFoundError)
    ELSE Returned(Undef)

\* the statement sent again when the store refuses it
UpdateQueried_Retry(ran) ==
    Outcome(UpdateOutcome(ran.res), IF ran.res.ok THEN <<ran.q>> ELSE <<ran.q, ran.q>>,
            ran.res)

\* an update once its statement has been answered
UpdateQueried(ran) == Outcome(UpdateOutcome(ran.res), <<ran.q>>, ran.res)

\* the statement issued before the data is looked at
JobUpdateBuilt_QueryFirst(id, built) ==
    IF built.type = "throw"
    THEN Outcome(built, <<JobUpdateQuery(<<>>, <<>>, id)>>, Untouched)
    ELSE UpdateQueried(Query(JobUpdateQuery(built.value.setCols, built.value.values, id)))

\* Job.update after sqlForPartialUpdate: its throw ends the call
JobUpdateBuilt(id, built) ==
    IF built.type = "throw" THEN Outcome(built, <<>>, Untouched)
    ELSE UpdateQueried(Query(JobUpdateQuery(built.value.setCols, built.value.values, id)))

\* Job.update(id, data)
JobUpdate(id, data) == JobUpdateBuilt(id, sqlForPartialUpdate(data, <<>>))

CompanyUpdateBuilt(handle, built) ==
    IF built.type = "throw" THEN Outcome(built, <<>>, Untouched)
    ELSE UpdateQueried(Query(CompanyUpdateQuery(built.value.setCols, built.value.values,
                                                handle)))

\* Company.update(handle, data)
CompanyUpdate(handle, data) ==
    CompanyUpdateBuilt(handle, sqlForPartialUpdate(data, CompanyFieldNames))

\* `SELECT handle FROM companies WHERE handle = $1`, [companyHandle]
HandleExistsQuery(handle) ==
    [sql |-> <<"SELECT", " ", "handle", " ", "FROM", " ", "companies", " ", "WHERE", " ",
               "handle", " ", "=", " ", "$", "1">>,
     values |-> <<handle>>]

\* `INSERT INTO jobs (title, salary, equity, company_handle) VALUES ($1, $2, $3, $4)
\*  RETURNING ...`, [title, salary, equity, companyHandle]
JobCreateQuery(data) ==
    [sql |-> <<"INSERT", " ", "INTO", " ", "jobs", " ", "(", "title", ",", " ", "salary",
               ",", " ", "equity", ",", " ", "company_handle", ")", " ", "VALUES", " ",
               "(", "$", "1", ",", " ", "$", "2", ",", " ", "$", "3", ",", " ", "$", "4",
               ")", " ", "RETURNING", " ", "id", ",", " ", "title", ",", " ", "salary",
               ",", " ", "equity", ",", " ", "company_handle", " ", "AS", " ",
               "\"", "companyHandle", "\"">>,
     values |-> <<Get(data, title), Get(data, salary), Get(data, equity),
                  Get(data, companyHandle)>>]

\* const job = result.rows[0]; return job
JobInserted(check, ran) ==
    Outcome(IF ~ran.res.ok THEN Thrown(StoreError)
            ELSE Returned(CHOOSE row \in ran.res.rows : TRUE),
            <<check.q, ran.q>>, ran.res)

\* the job inserted whatever the check found
HandleChecked_NoCheck(data, check) ==
    IF ~check.res.ok THEN Outcome(Thrown(StoreError), <<check.q>>, Untouched)
    ELSE JobInserted(check, Query(JobCreateQuery(data)))

\* if (handleExists.rows.length === 0) throw new BadRequestError(...)
HandleChecked(data, check) ==
    IF ~check.res.ok THEN Outcome(Thrown(StoreError), <<check.q>>, Untouched)
    ELSE IF check.res.rows = {} THEN Outcome(Thrown(BadRequestError), <<check.q>>, Untouched)
    ELSE JobInserted(check, Query(JobCreateQuery(data)))

\* Job.create({ title, salary, equity, companyHandle })
JobCreate(data) ==
    HandleChecked(data, Query(HandleExistsQuery(Get(data, companyHandle))))

RemoveQueried(ran) == Outcome(RemoveOutcome(ran.res), <<ran.q>>, ran.res)

\* Job.remove(id)
JobRemove(id) == RemoveQueried(Query(JobRemoveQuery(id)))

\* `SELECT id, title, salary, equity, company_handle AS "companyHandle" FROM jobs
\*  ORDER BY title`
JobFindAllQuery ==
    [sql |-> <<"SELECT", " ", "id", ",", " ", "title", ",", " ", "salary", ",", " ",
               "equity", ",", " ", "company_handle", " ", "AS", " ", "\"", "companyHandle",
               "\"", " ", "FROM", " ", "jobs", " ", "ORDER", " ", "BY", " ", "title">>,
     values |-> <<>>]

\* return jobsRes.rows
FoundAll(q, res) ==
    Outcome(IF res.ok THEN Returned(res.rows) ELSE Thrown(StoreError), <<q>>, Untouched)

\* Job.findAll()
JobFindAll == FoundAll(JobFindAllQuery, DbQuery(JobFindAllQuery.sql, JobFindAllQuery.values))

Filtered(q) == Outcome(FilterOutcome(DbQuery(q.sql, q.values)), <<q>>, Untouched)

\* Job.filter(query)
JobFilter(query) == Filtered(JobFilterQuery(query))

handleField == <<"h", "a", "n", "d", "l", "e">>

\* `SELECT handle FROM companies WHERE handle = $1`, [handle]
DuplicateCheckQuery(data) == HandleExistsQuery(Get(data, handleField))

\* `INSERT INTO companies (handle, name, description, num_employees, logo_url)
\*  VALUES ($1, $2, $3, $4, $5) RETURNING ...`,
\* [handle, name, description, numEmployees, logoUrl]
CompanyCreateQuery(data) ==
    [sql |-> <<"INSERT", " ", "INTO", " ", "companies", " ", "(", "handle", ",", " ",
               "name", ",", " ", "description", ",", " ", "num_employees", ",", " ",
               "logo_url", ")", " ", "VALUES", " ", "(", "$", "1", ",", " ", "$", "2",
               ",", " ", "$", "3", ",", " ", "$", "4", ",", " ", "$", "5", ")", " ",
               "RETURNING", " ", "handle", ",", " ", "name", ",", " ", "description",
               ",", " ", "num_employees", " ", "AS", " ", "\"", "numEmployees", "\"",
               ",", " ", "logo_url", " ", "AS", " ", "\"", "logoUrl", "\"">>,
     values |-> <<Get(data, handleField), Get(data, name), Get(data, description),
                  Get(data, numEmployees), Get(data, logoUrl)>>]

\* const company = result.rows[0]; return company
CompanyInserted(check, ran) ==
    Outcome(IF ~ran.res.ok THEN Thrown(StoreError)
            ELSE Returned(CHOOSE row \in ran.res.rows : TRUE),
            <<check.q, ran.q>>, ran.res)

\* the company inserted whatever the check found
DuplicateChecked_NoCheck(data, check) ==
    IF ~check.res.ok THEN Outcome(Thrown(StoreError), <<check.q>>, Untouched)
    ELSE CompanyInserted(check, Query(CompanyCreateQuery(data)))

\* if (duplicateCheck.rows[0]) throw new BadRequestError(`Duplicate company: ...`)
DuplicateChecked(data, check) ==
    IF ~check.res.ok THEN Outcome(Thrown(StoreError), <<check.q>>, Untouched)
    ELSE IF check.res.rows # {} THEN Outcome(Thrown(BadRequestError), <<check.q>>, Untouched)
    ELSE CompanyInserted(check, Query(CompanyCreateQuery(data)))

\* Company.create({ handle, name, description, numEmployees, logoUrl })
CompanyCreate(data) == DuplicateChecked(data, Query(DuplicateCheckQuery(data)))

\* `DELETE FROM companies WHERE handle = $1 RETURNING handle`, [handle]
CompanyRemoveQuery(handle) ==
    [sql |-> <<"DELETE", " ", "FROM", " ", "companies", " ", "WHERE", " ", "handle", " ",
               "=", " ", "$", "1", " ", "RETURNING", " ", "handle">>,
     values |-> <<handle>>]

\* Company.remove(handle)
CompanyRemove(handle) == RemoveQueried(Query(CompanyRemoveQuery(handle)))

----------------------------------------------------------------------------
(* middleware/auth.js and routes/jobs.js *)

\* if (!res.locals.user) throw new UnauthorizedError(); return next();
\* the error handed to next, if any
ensureLoggedIn(locals) ==
    IF ~Truthy(Get(locals, "user")) THEN UnauthorizedError ELSE NoError

\* every requester let through
ensureIsAdmin_Allow(locals) == NoError

\* if (!res.locals.user.isAdmin) throw new UnauthorizedError(...); return next();
\* reading a property of undefined throws a TypeError, which the catch hands on
ensureIsAdmin(locals) ==
    LET user == Get(locals, "user")
    IN  IF user.t = "undefined" THEN TypeError
        ELSE IF user.t # "object" \/ ~Truthy(Get(user.v, "isAdmin")) THEN UnauthorizedError
        ELSE NoError

\* user.username, user.isAdmin: undefined on a payload that is no object
Prop(user, key) == IF user.t = "object" THEN Get(user.v, key) ELSE Undef

\* every requester let through
ensureIsAdminOrSelf_Allow(locals, params) == NoError

\* if (user.username === req.params.username || user.isAdmin) return next();
\* else throw new UnauthorizedError("Not authorized"); reading a property of
\* undefined throws a TypeError, which the catch hands on
ensureIsAdminOrSelf(locals, params) ==
    LET user == Get(locals, "user")
    IN  IF user.t = "undefined" THEN TypeError
        ELSE IF Prop(user, "username") = Get(params, "username")
                    \/ Truthy(Prop(user, "isAdmin")) THEN NoError
        ELSE UnauthorizedError

\* authHeader.replace(/^[Bb]earer /, "").trim()
TokenOf(authHeader) ==
    IF Len(authHeader) >= 7
           /\ SubSeq(authHeader, 1, 7) \in {<<"B", "e", "a", "r", "e", "r", " ">>,
                                            <<"b", "e", "a", "r", "e", "r", " ">>}
    THEN Trim(SubSeq(authHeader, 8, Len(authHeader)))
    ELSE Trim(authHeader)

\* the token payload authenticateJWT stores: { username, isAdmin }
User(username, isAdmin) ==
    Obj(<<[k |-> "username", v |-> Str(username)], [k |-> "isAdmin", v |-> isAdmin]>>)

\* the tokens signed with SECRET_KEY that have not expired, with their payloads
Signed ==
    { [token |-> <<"t", "1">>, payload |-> User(<<"u", "1">>, Bool(FALSE))],
      [token |-> <<"t", "a">>, payload |-> User(<<"a">>, Bool(TRUE))] }

\* jwt.verify(token, SECRET_KEY): the payload, or a throw
Verify(token) ==
    IF \E s \in Signed : s.token = token
    THEN Returned((CHOOSE s \in Signed : s.token = token).payload)
    ELSE Thrown("JsonWebTokenError")

\* obj[key] = v
With(obj, key, v) ==
    IF \E i \in 1..Len(obj) : obj[i].k = key
    THEN [i \in 1..Len(obj) |-> IF obj[i].k = key THEN [k |-> key, v |-> v] ELSE obj[i]]
    ELSE Append(obj, [k |-> key, v |-> v])

\* what a middleware did: res.locals afterwards and the arguments of its
\* calls of next, in order
Went(locals, next) == [locals |-> locals, next |-> next]

\* a token that does not verify handed to next as an error
authenticateJWT_Strict(headers, locals) ==
    LET authHeader == Get(headers, "authorization")
    IN  IF ~Truthy(authHeader) THEN Went(locals, <<NoError>>)
        ELSE IF Verify(TokenOf(authHeader.v)).type = "throw"
        THEN Went(locals, <<UnauthorizedError>>)
        ELSE Went(With(locals, "user", Verify(TokenOf(authHeader.v)).value), <<NoError>>)

\* if (authHeader) { ...; res.locals.user = jwt.verify(token, SECRET_KEY); }
\* return next(); } catch (err) { return next(); }
authenticateJWT(headers, locals) ==
    LET authHeader == Get(headers, "authorization")
    IN  IF ~Truthy(authHeader) THEN Went(locals, <<NoError>>)
        ELSE IF Verify(TokenOf(authHeader.v)).type = "throw" THEN Went(locals, <<NoError>>)
        ELSE Went(With(locals, "user", Verify(TokenOf(authHeader.v)).value), <<NoError>>)

\* jsonschema.validate(req.body, jobNewSchema).valid
ValidNewJob(body) ==
    /\ \A i \in 1..Len(body) : body[i].k \in {title, salary, equity, companyHandle}
    /\ Get(body, title).t = "string"
    /\ Get(body, companyHandle).t = "string"
    /\ Get(body, salary).t = "number"
    /\ Get(body, equity).t = "string" /\ IsNumeral(Get(body, equity).v)

\* jsonschema.validate(req.body, jobUpdateSchema).valid
ValidJobUpdate(body) ==
    \A i \in 1..Len(body) :
          /\ body[i].k \in {title, salary, equity}
          /\ body[i].k = title => body[i].v.t = "string"
          /\ body[i].k = salary => body[i].v.t = "number"
          /\ body[i].k = equity => (body[i].v.t = "string" /\ IsNumeral(body[i].v.v))

\* return res.status(...).json(...) when the model call returned; next(err)
\* when it threw
Replied(out, status) ==
    [out EXCEPT !.result = IF @.type = "throw" THEN @
                           ELSE Returned([status |-> status, body |-> @.value])]

\* res.json({ deleted: Number(req.params.id) })
RepliedDeleted(out, id) ==
    [out EXCEPT !.result = IF @.type = "throw" THEN @
                           ELSE Returned([status |-> 200, body |-> Num(StrToNum(id.v))])]

\* what a handler did: the functions it called and what they amount to
Handled(called, out) == [called |-> called, out |-> out]

\* throw new BadRequestError(errs) after jsonschema.validate
Invalid ==
    Handled(<<"jsonschema.validate">>, Outcome(Thrown(BadRequestError), <<>>, Untouched))

\* the handler of POST /jobs
PostJob(body) ==
    IF ~ValidNewJob(body) THEN Invalid
    ELSE Handled(<<"jsonschema.validate", "Job.create">>, Replied(JobCreate(body), 201))

\* the handler of PATCH /jobs/:id
PatchJob(id, body) ==
    IF ~ValidJobUpdate(body) THEN Invalid
    ELSE Handled(<<"jsonschema.validate", "Job.update">>, Replied(JobUpdate(id, body), 200))

\* the handler of DELETE /jobs/:id
DeleteJob(id) == Handled(<<"Job.remove">>, RepliedDeleted(JobRemove(id), id))

\* Number(text) on the texts a query string carries here: decimal digits give
\* their number, any other text NaN
NumberOf(text) == IF IsNumeral(text) THEN Num(StrToNum(text)) ELSE NaN

\* if (req.query.minSalary) req.query.minSalary = Number(req.query.minSalary);
\* if (req.query.hasEquity) req.query.hasEquity = req.query.hasEquity === "true"
Converted(query) ==
    [i \in 1..Len(query) |->
        IF query[i].k = "minSalary" /\ Truthy(query[i].v)
        THEN [k |-> "minSalary", v |-> NumberOf(query[i].v.v)]
        ELSE IF query[i].k = "hasEquity" /\ Truthy(query[i].v)
        THEN [k |-> "hasEquity", v |-> Bool(query[i].v.v = <<"t", "r", "u", "e">>)]
        ELSE query[i]]

\* jsonschema.validate(req.query, jobSearchSchema).valid
ValidJobSearch(query) ==
    \A i \in 1..Len(query) :
          /\ query[i].k \in {"title", "minSalary", "hasEquity"}
          /\ query[i].k = "title" => query[i].v.t = "string"
          /\ query[i].k = "minSalary" => query[i].v.t = "number"
          /\ query[i].k = "hasEquity" => query[i].v.t = "boolean"

\* the query validated only after the model has been called
JobsSearched_ValidateLate(query) ==
    IF Truthy(Get(query, "title")) \/ Truthy(Get(query, "minSalary"))
           \/ Truthy(Get(query, "hasEquity"))
    THEN Handled(<<"Job.filter", "jsonschema.validate">>,
                 IF ValidJobSearch(query) THEN Replied(JobFilter(query), 200)
                 ELSE [JobFilter(query) EXCEPT !.result = Thrown(BadRequestError)])
    ELSE Handled(<<"Job.findAll", "jsonschema.validate">>,
                 IF ValidJobSearch(query) THEN Replied(JobFindAll, 200)
                 ELSE [JobFindAll EXCEPT !.result = Thrown(BadRequestError)])

\* every valid query handed to Job.filter
JobsSearched_AlwaysFilter(query) ==
    IF ~ValidJobSearch(query) THEN Invalid
    ELSE Handled(<<"jsonschema.validate", "Job.filter">>, Replied(JobFilter(query), 200))

\* const { title, minSalary, hasEquity } = req.query;
\* if (title || minSalary || hasEquity) Job.filter(req.query) else Job.findAll()
JobsSearched(query) ==
    IF ~ValidJobSearch(query) THEN Invalid
    ELSE IF Truthy(Get(query, "title")) \/ Truthy(Get(query, "minSalary"))
               \/ Truthy(Get(query, "hasEquity"))
    THEN Handled(<<"jsonschema.validate", "Job.filter">>, Replied(JobFilter(query), 200))
    ELSE Handled(<<"jsonschema.validate", "Job.findAll">>, Replied(JobFindAll, 200))

\* the handler of GET /jobs
GetJobs(query) == JobsSearched(Converted(query))

----------------------------------------------------------------------------
(* Inputs *)

RECURSIVE SeqsUpTo(_, _)
SeqsUpTo(S, n) ==
    IF n = 0 THEN {<<>>}
    ELSE LET shorter == SeqsUpTo(S, n - 1)
         IN  shorter \cup {Append(s, x) : s \in shorter, x \in S}

\* characters of a logical field name: a letter, and the double quote an
\* attacker may put into a key
KeyChars == {"a", "\""}
Keys == SeqsUpTo(KeyChars, MaxKeyLen) \ {<<>>}

PayloadValues == {Num(7), Str(<<"a">>)}

DistinctKeys(obj) ==
    \A i, j \in 1..Len(obj) : obj[i].k = obj[j].k => i = j

UpdatePayloads ==
    {p \in SeqsUpTo([k : Keys, v : PayloadValues], MaxKeys) : DistinctKeys(p)}

\* the maps the callers pass: none (Job.update) or camelCase -> snake_case
FieldNameMaps ==
    { <<>>,
      (<<"a">> :> <<"a", "_", "a">>),
      (<<"a", "a">> :> <<"a", "_", "a">>) @@ (<<"\"">> :> <<"q">>) }

\* the strings searched for: empty, matching (in either case), matching nothing
SearchStrings == {<<>>, <<"c">>, <<"J">>, <<"1">>, <<"z">>}
Numbers == 0..MaxNum

CompanyCriteria ==
    [k : {"name"}, v : {Str(x) : x \in SearchStrings}]
        \cup [k : {"minEmployees", "maxEmployees"}, v : {Num(n) : n \in Numbers}]

\* a criteria object: any of the three keys, in any order
CompanyQueries == {q \in SeqsUpTo(CompanyCriteria, 3) : DistinctKeys(q)}

JobCriteria ==
    [k : {"title"}, v : {Str(x) : x \in SearchStrings}]
        \cup [k : {"minSalary"}, v : {Num(n) : n \in Numbers}]
        \cup [k : {"hasEquity"},
              v : {Bool(TRUE), Bool(FALSE), Num(1), Str(<<"t", "r", "u", "e">>)}]

JobQueries == {q \in SeqsUpTo(JobCriteria, 3) : DistinctKeys(q)}

\* the rows the tests seed, numbers scaled down
SeedCompanies ==
    { [handle |-> <<"c", "1">>, name |-> <<"C", "1">>, description |-> <<"D", "1">>,
       num_employees |-> 1, logo_url |-> <<"u", "1">>],
      [handle |-> <<"c", "2">>, name |-> <<"C", "2">>, description |-> <<"D", "2">>,
       num_employees |-> 2, logo_url |-> <<"u", "2">>],
      [handle |-> <<"c", "3">>, name |-> <<"C", "3">>, description |-> <<"D", "3">>,
       num_employees |-> 3, logo_url |-> <<"u", "3">>] }

\* equity in hundredths
SeedJobs ==
    { [id |-> 1, title |-> <<"j", "1">>, salary |-> 3, equity |-> 0,
       company_handle |-> <<"c", "1">>],
      [id |-> 2, title |-> <<"j", "2">>, salary |-> 2, equity |-> 100,
       company_handle |-> <<"c", "2">>],
      [id |-> 3, title |-> <<"j", "3">>, salary |-> 1, equity |-> 20,
       company_handle |-> <<"c", "3">>] }

\* ids and handles asked for: present, absent, as the text a route passes on,
\* and text that is no number
JobIds == {Num(1), Num(0), Str(<<"2">>), Str(<<"x">>)}
CompanyHandles == {Str(<<"c", "1">>), Str(<<"c", "2">>), Str(<<"n", "o">>)}

\* the data of an update: nothing, one field, two fields in either order, a
\* field the table lacks, a value its column cannot hold
JobData ==
    { <<>>,
      <<[k |-> title, v |-> Str(<<"j", "9">>)]>>,
      <<[k |-> salary, v |-> Num(2)]>>,
      <<[k |-> salary, v |-> Num(2)], [k |-> title, v |-> Str(<<"j", "9">>)]>>,
      <<[k |-> equity, v |-> Num(50)], [k |-> salary, v |-> Num(0)]>>,
      <<[k |-> <<"a">>, v |-> Num(7)]>>,
      <<[k |-> salary, v |-> Str(<<"x">>)]>> }

CompanyData ==
    { <<>>,
      <<[k |-> name, v |-> Str(<<"C", "9">>)]>>,
      <<[k |-> numEmployees, v |-> Num(2)]>>,
      <<[k |-> logoUrl, v |-> Str(<<"u", "9">>)],
        [k |-> description, v |-> Str(<<"D", "9">>)]>>,
      <<[k |-> <<"a">>, v |-> Num(7)]>> }

\* the searches run between writes
SomeCompanyQueries ==
    { <<>>,
      <<[k |-> "name", v |-> Str(<<"c">>)]>>,
      <<[k |-> "name", v |-> Str(<<"9">>)]>>,
      <<[k |-> "minEmployees", v |-> Num(2)]>>,
      <<[k |-> "minEmployees", v |-> Num(2)], [k |-> "maxEmployees", v |-> Num(1)]>> }

SomeJobQueries ==
    { <<>>,
      <<[k |-> "title", v |-> Str(<<"9">>)]>>,
      <<[k |-> "minSalary", v |-> Num(1)]>>,
      <<[k |-> "hasEquity", v |-> Bool(TRUE)]>> }

\* res.locals: no user, a plain user, an admin, a payload without isAdmin
Locals ==
    { <<>>,
      <<[k |-> "user", v |-> User(<<"u", "1">>, Bool(FALSE))]>>,
      <<[k |-> "user", v |-> User(<<"a">>, Bool(TRUE))]>>,
      <<[k |-> "user", v |-> Obj(<<[k |-> "username", v |-> Str(<<"u", "3">>)]>>)]>> }

\* req.params.id
RouteIds == {Str(<<"1">>), Str(<<"0">>)}

\* bodies of POST /jobs: a new job, one for a company that does not exist,
\* one with missing data, one with a property too many
NewJobBodies ==
    { <<[k |-> title, v |-> Str(<<"j", "9">>)], [k |-> salary, v |-> Num(3)],
        [k |-> equity, v |-> Str(<<"0">>)], [k |-> companyHandle, v |-> Str(<<"c", "1">>)]>>,
      <<[k |-> title, v |-> Str(<<"j", "9">>)], [k |-> salary, v |-> Num(3)],
        [k |-> equity, v |-> Str(<<"0">>)], [k |-> companyHandle, v |-> Str(<<"n", "o">>)]>>,
      <<[k |-> salary, v |-> Num(1)]>>,
      <<[k |-> title, v |-> Str(<<"j", "9">>)], [k |-> salary, v |-> Num(3)],
        [k |-> equity, v |-> Str(<<"0">>)], [k |-> companyHandle, v |-> Str(<<"c", "1">>)],
        [k |-> <<"n", "o", "p", "e">>, v |-> Str(<<"n", "o", "p", "e">>)]>> }

\* bodies of PATCH /jobs/:id: a new title, a new salary, a title that is no
\* string, an attempt to change the id
JobUpdateBodies ==
    { <<[k |-> title, v |-> Str(<<"j", "9">>)]>>,
      <<[k |-> salary, v |-> Num(2)]>>,
      <<[k |-> title, v |-> Num(1)]>>,
      <<[k |-> <<"i", "d">>, v |-> Num(2)]>> }

Requests ==
    [route : {"POST /jobs"}, locals : Locals, id : {Undef}, body : NewJobBodies]
        \cup [route : {"PATCH /jobs/:id"}, locals : Locals, id : RouteIds,
              body : JobUpdateBodies]
        \cup [route : {"DELETE /jobs/:id"}, locals : Locals, id : RouteIds, body : {<<>>}]

\* req.query of GET /jobs, as the query string gives it: every value a text
SearchQueries ==
    { t \o m \o e :
        t \in {<<>>, <<[k |-> "title", v |-> Str(<<"j">>)]>>,
                <<[k |-> "title", v |-> Str(<<>>)]>>},
        m \in {<<>>} \cup {<<[k |-> "minSalary", v |-> Str(s)]>> :
                               s \in {<<"0">>, <<"2">>, <<"x">>}},
        e \in {<<>>} \cup {<<[k |-> "hasEquity", v |-> Str(s)]>> :
                               s \in {<<"t", "r", "u", "e">>, <<"f", "a", "l", "s", "e">>}} }
        \cup {<<[k |-> "bla", v |-> Str(<<"b", "l", "a">>)]>>}

\* req.headers: no authorization header, an empty one, a user's token, an
\* admin's, a token without the Bearer prefix, a token that does not verify
Headers ==
    {<<>>} \cup
    { <<[k |-> "authorization", v |-> Str(text)]>> :
        text \in { <<>>,
                   <<"B", "e", "a", "r", "e", "r", " ", "t", "1">>,
                   <<"b", "e", "a", "r", "e", "r", " ", "t", "a", " ">>,
                   <<"t", "1">>,
                   <<"B", "e", "a", "r", "e", "r", " ", "x", "x">> } }

\* req.params of the users routes
UserParams == {<<[k |-> "username", v |-> Str(u)]>> : u \in {<<"u", "1">>, <<"u", "2">>}}

\* data of Company.create: a handle already stored, two new companies with
\* the same handle
NewCompanies ==
    { <<[k |-> handleField, v |-> Str(<<"c", "1">>)], [k |-> name, v |-> Str(<<"C", "x">>)],
        [k |-> description, v |-> Str(<<"D", "x">>)], [k |-> numEmployees, v |-> Num(1)],
        [k |-> logoUrl, v |-> Str(<<"u", "x">>)]>>,
      <<[k |-> handleField, v |-> Str(<<"c", "9">>)], [k |-> name, v |-> Str(<<"C", "9">>)],
        [k |-> description, v |-> Str(<<"D", "9">>)], [k |-> numEmployees, v |-> Num(2)],
        [k |-> logoUrl, v |-> Str(<<"u", "9">>)]>>,
      <<[k |-> handleField, v |-> Str(<<"c", "9">>)], [k |-> name, v |-> Str(<<"C", "8">>)],
        [k |-> description, v |-> Str(<<"D", "8">>)], [k |-> numEmployees, v |-> Num(3)],
        [k |-> logoUrl, v |-> Str(<<"u", "8">>)]>> }

\* handles removed: stored at the start, created later, never stored
RemovedHandles == {Str(<<"c", "1">>), Str(<<"c", "9">>), Str(<<"n", "o">>)}

\* data of Job.create: for a company stored at the start, for one created
\* later, for one never stored
NewJobs ==
    { <<[k |-> title, v |-> Str(<<"j", "9">>)], [k |-> salary, v |-> Num(3)],
        [k |-> equity, v |-> Str(<<"0">>)], [k |-> companyHandle, v |-> Str(h)]>> :
        h \in {<<"c", "1">>, <<"c", "9">>, <<"n", "o">>} }

----------------------------------------------------------------------------
(* State machine *)

Init ==
    /\ companies = SeedCompanies
    /\ jobs = SeedJobs
    /\ op = "idle"
    /\ args = <<>>
    /\ result = Returned(NoValue)
    /\ stmts = <<>>
    /\ writes = 0
    /\ jobIdSeq = Cardinality(SeedJobs) + 1
    /\ pc = "none"
    /\ steps = <<>>

\* a call that may write: its effect on the tables, its outcome to the caller
Effect(out) ==
    /\ result' = out.result
    /\ stmts' = out.stmts
    /\ companies' = out.companies
    /\ jobs' = out.jobs
    /\ jobIdSeq' = out.jobIdSeq
    /\ writes' = IF out.companies # companies \/ out.jobs # jobs THEN writes + 1
                 ELSE writes

CallSqlForPartialUpdate ==
    /\ op = "idle"
    /\ \E dataToUpdate \in UpdatePayloads, jsToSql \in FieldNameMaps :
         /\ args' = [dataToUpdate |-> dataToUpdate, jsToSql |-> jsToSql]
         /\ result' = sqlForPartialUpdate(dataToUpdate, jsToSql)
    /\ op' = "sqlForPartialUpdate"
    /\ stmts' = <<>>
    /\ UNCHANGED <<companies, jobs, writes, jobIdSeq, pc, steps>>

CompanyFilterCall(queries) ==
    /\ op = "idle"
    /\ \E query \in queries :
         /\ args' = [query |-> query]
         /\ IF CompanyFilterRejects(query)
            THEN /\ result' = Thrown(BadRequestError)
                 /\ stmts' = <<>>
            ELSE LET q == CompanyFilterQuery(query)
                 IN  /\ stmts' = <<q>>
                     /\ result' = FilterOutcome(DbQuery(q.sql, q.values))
    /\ op' = "Company.filter"
    /\ UNCHANGED <<companies, jobs, writes, jobIdSeq, pc, steps>>

JobFilterCall(queries) ==
    /\ op = "idle"
    /\ \E query \in queries :
         /\ args' = [query |-> query]
         /\ LET q == JobFilterQuery(query)
            IN  /\ stmts' = <<q>>
                /\ result' = FilterOutcome(DbQuery(q.sql, q.values))
    /\ op' = "Job.filter"
    /\ UNCHANGED <<companies, jobs, writes, jobIdSeq, pc, steps>>

Company_filter == CompanyFilterCall(CompanyQueries)

Job_filter == JobFilterCall(JobQueries)

Company_filter_some == CompanyFilterCall(SomeCompanyQueries)

Job_filter_some == JobFilterCall(SomeJobQueries)

Job_update ==
    /\ op = "idle"
    /\ writes < MaxWrites
    /\ \E id \in JobIds, data \in JobData :
         /\ args' = [id |-> id, data |-> data]
         /\ Effect(JobUpdate(id, data))
    /\ op' = "Job.update"
    /\ UNCHANGED <<pc, steps>>

Company_update ==
    /\ op = "idle"
    /\ writes < MaxWrites
    /\ \E handle \in CompanyHandles, data \in CompanyData :
         /\ args' = [handle |-> handle, data |-> data]
         /\ Effect(CompanyUpdate(handle, data))
    /\ op' = "Company.update"
    /\ UNCHANGED <<pc, steps>>

Job_remove ==
    /\ op = "idle"
    /\ writes < MaxWrites
    /\ \E id \in JobIds :
         /\ args' = [id |-> id]
         /\ Effect(JobRemove(id))
    /\ op' = "Job.remove"
    /\ UNCHANGED <<pc, steps>>

\* ensureIsAdmin called on its own
CallEnsureIsAdmin ==
    /\ op = "idle"
    /\ \E locals \in Locals :
         /\ args' = [locals |-> locals]
         /\ result' = IF ensureIsAdmin(locals) = NoError THEN Returned(NoValue)
                      ELSE Thrown(ensureIsAdmin(locals))
    /\ op' = "ensureIsAdmin"
    /\ stmts' = <<>>
    /\ UNCHANGED <<companies, jobs, writes, jobIdSeq, pc, steps>>

\* a request arrives at one of the guarded jobs routes
Request ==
    /\ op = "idle"
    /\ writes < MaxWrites
    /\ \E req \in Requests :
         /\ op' = req.route
         /\ args' = [locals |-> req.locals, id |-> req.id, body |-> req.body]
    /\ pc' = "ensureLoggedIn"
    /\ steps' = <<>>
    /\ result' = Returned(NoValue)
    /\ stmts' = <<>>
    /\ UNCHANGED <<companies, jobs, writes, jobIdSeq>>

\* next(): the chain goes on; next(err): the rest of the chain is skipped
Passed(err, then) ==
    /\ pc' = IF err = NoError THEN then ELSE "done"
    /\ result' = IF err = NoError THEN result ELSE Thrown(err)
    /\ UNCHANGED <<companies, jobs, op, args, stmts, writes, jobIdSeq>>

EnsureLoggedIn ==
    /\ pc = "ensureLoggedIn"
    /\ steps' = Append(steps, "ensureLoggedIn")
    /\ Passed(ensureLoggedIn(args.locals),
              IF op = "GET /users/:username" THEN "ensureIsAdminOrSelf" ELSE "ensureIsAdmin")

EnsureIsAdmin ==
    /\ pc = "ensureIsAdmin"
    /\ steps' = Append(steps, "ensureIsAdmin")
    /\ Passed(ensureIsAdmin(args.locals), "handler")

Handler ==
    /\ pc = "handler"
    /\ \E h \in {CASE op = "POST /jobs" -> PostJob(args.body)
                    [] op = "PATCH /jobs/:id" -> PatchJob(args.id, args.body)
                    [] op = "DELETE /jobs/:id" -> DeleteJob(args.id)} :
         /\ steps' = steps \o h.called
         /\ Effect(h.out)
    /\ pc' = "done"
    /\ UNCHANGED <<op, args>>

\* the caller has the outcome; the call's locals are gone
Return ==
    /\ op # "idle"
    /\ pc \in {"none", "done"}
    /\ op' = "idle"
    /\ args' = <<>>
    /\ result' = Returned(NoValue)
    /\ stmts' = <<>>
    /\ pc' = "none"
    /\ steps' = <<>>
    /\ UNCHANGED <<companies, jobs, writes, jobIdSeq>>

Next ==
    \/ CallSqlForPartialUpdate
    \/ Company_filter
    \/ Job_filter
    \/ Return

Spec == Init /\ [][Next]_vars

\* the models with their writes, searched between them
NextWrite ==
    \/ Job_update
    \/ Company_update
    \/ Job_remove
    \/ Company_filter_some
    \/ Job_filter_some
    \/ CallEnsureIsAdmin
    \/ Request
    \/ EnsureLoggedIn
    \/ EnsureIsAdmin
    \/ Handler
    \/ Return

SpecWrite == Init /\ [][NextWrite]_vars

Job_create ==
    /\ op = "idle"
    /\ writes < MaxWrites
    /\ \E data \in NewJobs :
         /\ args' = [data |-> data]
         /\ Effect(JobCreate(data))
    /\ op' = "Job.create"
    /\ UNCHANGED <<pc, steps>>

Company_create ==
    /\ op = "idle"
    /\ writes < MaxWrites
    /\ \E data \in NewCompanies :
         /\ args' = [data |-> data]
         /\ Effect(CompanyCreate(data))
    /\ op' = "Company.create"
    /\ UNCHANGED <<pc, steps>>

Company_remove ==
    /\ op = "idle"
    /\ writes < MaxWrites
    /\ \E handle \in RemovedHandles :
         /\ args' = [handle |-> handle]
         /\ Effect(CompanyRemove(handle))
    /\ op' = "Company.remove"
    /\ UNCHANGED <<pc, steps>>

\* authenticateJWT called on a request whose res.locals is still empty
CallAuthenticateJWT ==
    /\ op = "idle"
    /\ \E headers \in Headers :
         /\ args' = [headers |-> headers, locals |-> <<>>]
         /\ result' = Returned(authenticateJWT(headers, <<>>))
    /\ op' = "authenticateJWT"
    /\ stmts' = <<>>
    /\ UNCHANGED <<companies, jobs, writes, jobIdSeq, pc, steps>>

\* ensureIsAdminOrSelf called on its own
CallEnsureIsAdminOrSelf ==
    /\ op = "idle"
    /\ \E locals \in Locals, params \in UserParams :
         /\ args' = [locals |-> locals, params |-> params]
         /\ result' = IF ensureIsAdminOrSelf(locals, params) = NoError
                      THEN Returned(NoValue)
                      ELSE Thrown(ensureIsAdminOrSelf(locals, params))
    /\ op' = "ensureIsAdminOrSelf"
    /\ stmts' = <<>>
    /\ UNCHANGED <<companies, jobs, writes, jobIdSeq, pc, steps>>

\* a request arrives at GET /jobs, which no middleware guards
RequestJobs ==
    /\ op = "idle"
    /\ \E query \in SearchQueries : args' = [locals |-> <<>>, query |-> query]
    /\ op' = "GET /jobs"
    /\ pc' = "getJobs"
    /\ steps' = <<>>
    /\ result' = Returned(NoValue)
    /\ stmts' = <<>>
    /\ UNCHANGED <<companies, jobs, writes, jobIdSeq>>

GetJobsHandler ==
    /\ pc = "getJobs"
    /\ \E h \in {GetJobs(args.query)} :
         /\ steps' = steps \o h.called
         /\ Effect(h.out)
    /\ pc' = "done"
    /\ UNCHANGED <<op, args>>

\* a request arrives at GET /users/:username
RequestUser ==
    /\ op = "idle"
    /\ \E locals \in Locals, params \in UserParams :
         args' = [locals |-> locals, params |-> params]
    /\ op' = "GET /users/:username"
    /\ pc' = "ensureLoggedIn"
    /\ steps' = <<>>
    /\ result' = Returned(NoValue)
    /\ stmts' = <<>>
    /\ UNCHANGED <<companies, jobs, writes, jobIdSeq>>

EnsureIsAdminOrSelf ==
    /\ pc = "ensureIsAdminOrSelf"
    /\ steps' = Append(steps, "ensureIsAdminOrSelf")
    /\ Passed(ensureIsAdminOrSelf(args.locals, args.params), "userHandler")

\* the handler of GET /users/:username: User.get(req.params.username)
UserHandler ==
    /\ pc = "userHandler"
    /\ steps' = Append(steps, "User.get")
    /\ pc' = "done"
    /\ UNCHANGED <<companies, jobs, op, args, result, stmts, writes, jobIdSeq>>

\* creation and removal, the middleware and the routes they guard
NextApp ==
    \/ Job_create
    \/ Company_create
    \/ Company_remove
    \/ CallAuthenticateJWT
    \/ CallEnsureIsAdminOrSelf
    \/ RequestJobs
    \/ GetJobsHandler
    \/ RequestUser
    \/ EnsureIsAdminOrSelf
    \/ UserHandler
    \/ Request
    \/ EnsureLoggedIn
    \/ EnsureIsAdmin
    \/ Handler
    \/ Return

SpecApp == Init /\ [][NextApp]_vars

----------------------------------------------------------------------------
(* Properties of sqlForPartialUpdate *)

BuilderRan == op = "sqlForPartialUpdate"
BuilderReturned == BuilderRan /\ result.type = "return"

\* the column a key stands for: the map's entry when there is one, else the key
Physical(jsToSql, k) == IF k \in DOMAIN jsToSql THEN jsToSql[k] ELSE k

C2_EmptyPayloadThrows ==
    (BuilderRan /\ args.dataToUpdate = <<>>) =>
        /\ result.type = "throw"
        /\ result.error = BadRequestError
        /\ result.value = NoValue

C2_Witness ==
    /\ BuilderRan
    /\ args.dataToUpdate = <<>>
    /\ args.jsToSql # <<>>
    /\ result.type = "throw"

RECURSIVE ExpectedSetCols(_, _, _)
ExpectedSetCols(P, jsToSql, i) ==
    IF i > Len(P) THEN <<>>
    ELSE (IF i > 1 THEN <<",", " ">> ELSE <<>>)
             \o <<"\"">> \o Physical(jsToSql, P[i].k) \o <<"\"", "=", "$">> \o NumToStr(i)
             \o ExpectedSetCols(P, jsToSql, i + 1)

RECURSIVE IsAssignmentList(_, _)
IsAssignmentList(text, count) ==
    /\ Len(text) >= 6
    /\ text[1] = "\""
    /\ LET close == CHOOSE j \in 2..(Len(text) + 1) :
                        /\ (j = Len(text) + 1 \/ text[j] = "\"")
                        /\ \A h \in 2..(j - 1) : text[h] # "\""
           rest == SubSeq(text, close, Len(text))
           n == DigitRun(SubSeq(rest, 4, Len(rest)))
           after == SubSeq(rest, 4 + n, Len(rest))
       IN  /\ close > 2
           /\ Len(rest) >= 4
           /\ rest[1] = "\"" /\ rest[2] = "=" /\ rest[3] = "$"
           /\ n > 0
           /\ IF after = <<>> THEN count = 1
              ELSE /\ Len(after) > 2
                   /\ after[1] = "," /\ after[2] = " "
                   /\ IsAssignmentList(SubSeq(after, 3, Len(after)), count - 1)

\* C4: whatever the keys, each one stands in a bare double-quoted identifier
\* position: setCols is a list of one "name"=$n per key, the name enclosed by
\* exactly one opening and one closing double quote.
C4_KeysStayInsideIdentifiers ==
    BuilderReturned =>
        /\ Count(result.value.setCols, "\"") = 2 * Len(args.dataToUpdate)
        /\ IsAssignmentList(result.value.setCols, Len(args.dataToUpdate))

----------------------------------------------------------------------------
(* Properties of the filter queries *)

CompanyFilterRan == op = "Company.filter"
JobFilterRan == op = "Job.filter"
FilterRan == CompanyFilterRan \/ JobFilterRan
Issued == FilterRan /\ Len(stmts) = 1

\* the predicates of a statement, as the store reads them
PredicatesOf(sql) ==
    IF WhereBody(sql) = <<>> THEN <<>> ELSE Conjuncts(WhereBody(sql))

\* the criteria a call applies
AppliedCompany(q) ==
    {k \in {"name", "minEmployees", "maxEmployees"} : Truthy(Get(q, k))}
AppliedJob(q) ==
    {k \in {"title", "minSalary"} : Truthy(Get(q, k))}
        \cup {k \in {"hasEquity"} : Get(q, k) = Bool(TRUE)}

\* the payload with other values under the same keys
WithValues(P, vs) == [i \in 1..Len(P) |-> [k |-> P[i].k, v |-> vs[i]]]

\* C5: the SQL text does not depend on the supplied values: another payload
\* with the same keys in the same order, or another criteria object that
\* passes validation and applies the same criteria, yields the same text; only
\* the bound values differ.
C5_TextIndependentOfValues ==
    /\ BuilderReturned =>
           \A vs \in [1..Len(args.dataToUpdate) -> PayloadValues] :
               LET other == sqlForPartialUpdate(WithValues(args.dataToUpdate, vs),
                                                args.jsToSql)
               IN  /\ other.type = "return"
                   /\ other.value.setCols = result.value.setCols
                   /\ other.value.values = vs
    /\ (CompanyFilterRan /\ Len(stmts) = 1) =>
           \A q \in CompanyQueries :
               (~CompanyFilterRejects(q) /\ AppliedCompany(q) = AppliedCompany(args.query))
                   => CompanyFilterQuery(q).sql = stmts[1].sql
    /\ (JobFilterRan /\ Len(stmts) = 1) =>
           \A q \in JobQueries :
               AppliedJob(q) = AppliedJob(args.query)
                   => JobFilterQuery(q).sql = stmts[1].sql

C5_Witness ==
    \/ /\ BuilderReturned
       /\ Len(args.dataToUpdate) = 2
       /\ \E vs \in [1..2 -> PayloadValues] : vs # result.value.values
    \/ /\ CompanyFilterRan /\ Len(stmts) = 1
       /\ AppliedCompany(args.query) = {"name", "minEmployees", "maxEmployees"}
       /\ \E q \in CompanyQueries :
              /\ ~CompanyFilterRejects(q)
              /\ AppliedCompany(q) = AppliedCompany(args.query)
              /\ CompanyFilterQuery(q).values # stmts[1].values

\* the criterion a predicate belongs to
KindOf(p) ==
    CASE p[1] = "name" -> "name"
      [] p[1] = "title" -> "title"
      [] p[1] = "num_employees" /\ p[3] = ">=" -> "minEmployees"
      [] p[1] = "num_employees" /\ p[3] = "<=" -> "maxEmployees"
      [] p[1] = "salary" -> "minSalary"
      [] p[1] = "equity" -> "hasEquity"
      [] OTHER -> "none"

\* the value a criterion binds: the number as given, the substring between
\* two % signs
BoundValue(q, kind) ==
    IF kind \in {"name", "title"}
    THEN Str(<<"%">> \o Get(q, kind).v \o <<"%">>)
    ELSE Get(q, kind)

\* C6: in the statement a filter issues, the placeholders are $1..$len(values),
\* each once and in increasing order of appearance, and the value at position
\* k is the value of the criterion whose predicate carries $k.
C6_PlaceholdersMatchValues ==
    Issued =>
        LET sql == stmts[1].sql
            values == stmts[1].values
            preds == PredicatesOf(sql)
        IN  /\ Placeholders(sql) = [i \in 1..Len(values) |-> i]
            /\ \A i \in 1..Len(preds) :
                  UsesPlaceholder(preds[i]) =>
                      /\ PlaceholderOf(preds[i]) \in 1..Len(values)
                      /\ values[PlaceholderOf(preds[i])]
                             = BoundValue(args.query, KindOf(preds[i]))

C6_Witness ==
    /\ CompanyFilterRan /\ Len(stmts) = 1
    /\ Get(args.query, "name") = Str(<<"c">>)
    /\ Get(args.query, "minEmployees") = Num(1)
    /\ Get(args.query, "maxEmployees") = Num(2)
    /\ Len(stmts[1].values) = 3

C6_WitnessTwoOfThree ==
    /\ CompanyFilterRan /\ Len(stmts) = 1
    /\ AppliedCompany(args.query) = {"name", "maxEmployees"}

\* C7: Company.filter with both bounds supplied and minEmployees above
\* maxEmployees fails with BadRequestError and hands the store no statement.
C7_InvertedBoundsRejected ==
    (/\ CompanyFilterRan
     /\ Get(args.query, "minEmployees").t = "number"
     /\ Get(args.query, "maxEmployees").t = "number"
     /\ Get(args.query, "minEmployees").v > Get(args.query, "maxEmployees").v) =>
        /\ result = Thrown(BadRequestError)
        /\ stmts = <<>>

C7_Witness ==
    /\ CompanyFilterRan
    /\ Get(args.query, "minEmployees") = Num(2)
    /\ Get(args.query, "maxEmployees") = Num(1)
    /\ result.type = "throw"

ZeroCriteria ==
    \/ CompanyFilterRan /\ AppliedCompany(args.query) = {}
    \/ JobFilterRan /\ AppliedJob(args.query) = {}

\* C8: a filter call that applies no criterion issues a statement the store
\* can run: its WHERE is never left without a condition.
C8_NoDanglingWhere ==
    ZeroCriteria =>
        \A i \in 1..Len(stmts) :
            /\ WhereBody(stmts[i].sql) # <<>>
            /\ SelectIsValid(stmts[i].sql, stmts[i].values)

\* the criteria a call applies, in the documented order
AppliedInOrder(q) ==
    IF op = "Company.filter"
    THEN SelectSeq(<<"name", "minEmployees", "maxEmployees">>,
                   LAMBDA k : k \in AppliedCompany(q))
    ELSE SelectSeq(<<"title", "minSalary", "hasEquity">>,
                   LAMBDA k : k \in AppliedJob(q))

SameProperties(q1, q2) ==
    /\ Len(q1) = Len(q2)
    /\ \A i \in 1..Len(q1) : \E j \in 1..Len(q2) : q1[i] = q2[j]

\* C9: the predicates stand in the documented order (name, minEmployees,
\* maxEmployees; title, minSalary, equity) whatever the order of the keys of
\* the criteria object; a criterion that is not applied adds no predicate and
\* no value; n >= 1 predicates are separated by n - 1 ANDs.
C9_FixedPredicateOrder ==
    Issued =>
        LET sql == stmts[1].sql
            preds == PredicatesOf(sql)
            kinds == AppliedInOrder(args.query)
        IN  /\ Len(preds) = Len(kinds)
            /\ \A i \in 1..Len(preds) : KindOf(preds[i]) = kinds[i]
            /\ Len(stmts[1].values)
                   = Cardinality({i \in 1..Len(kinds) : kinds[i] # "hasEquity"})
            /\ Count(sql, "AND") = (IF Len(kinds) = 0 THEN 0 ELSE Len(kinds) - 1)
            /\ CompanyFilterRan =>
                   \A q \in CompanyQueries :
                       SameProperties(q, args.query) => CompanyFilterQuery(q) = stmts[1]
            /\ JobFilterRan =>
                   \A q \in JobQueries :
                       SameProperties(q, args.query) => JobFilterQuery(q) = stmts[1]

\* all three job criteria applied, the keys given in another order
C9_Witness ==
    /\ JobFilterRan /\ Len(stmts) = 1
    /\ Len(args.query) = 3
    /\ args.query[1].k = "minSalary"
    /\ args.query[2] = [k |-> "hasEquity", v |-> Bool(TRUE)]
    /\ args.query[3].k = "title"
    /\ AppliedJob(args.query) = {"title", "minSalary", "hasEquity"}

\* a stored job meets the title and salary criteria of a call
MeetsTitleAndSalary(row, q) ==
    /\ Truthy(Get(q, "title")) =>
           \E i \in 1..Len(row.title) :
               LowerText(SubSeq(row.title, i, i + Len(Get(q, "title").v) - 1))
                   = LowerText(Get(q, "title").v)
    /\ Truthy(Get(q, "minSalary")) => row.salary > Get(q, "minSalary").v

\* C10: with hasEquity true Job.filter adds the literal predicate equity > 0,
\* which has no placeholder and binds nothing (predicates = values + 1); with
\* hasEquity false or absent it adds no equity predicate, and the jobs it
\* returns are chosen regardless of their equity.
C10_EquityPredicateIsLiteral ==
    (JobFilterRan /\ Len(stmts) = 1) =>
        LET preds == PredicatesOf(stmts[1].sql)
            hasEquity == Get(args.query, "hasEquity")
        IN  /\ hasEquity = Bool(TRUE) =>
                  /\ preds # <<>>
                  /\ preds[Len(preds)] = <<"equity", " ", ">", " ", "0">>
                  /\ Len(preds) = Len(stmts[1].values) + 1
                  /\ Len(Placeholders(stmts[1].sql)) = Len(stmts[1].values)
            /\ hasEquity \in {Bool(FALSE), Undef} =>
                  /\ \A i \in 1..Len(preds) : preds[i][1] # "equity"
                  /\ Len(preds) = Len(stmts[1].values)
                  /\ result.type = "return" =>
                         result.value
                             = {JobRow(r) : r \in {x \in jobs :
                                                      MeetsTitleAndSalary(x, args.query)}}

C10_Witness ==
    /\ JobFilterRan /\ Len(stmts) = 1
    /\ Get(args.query, "hasEquity") = Bool(TRUE)
    /\ Truthy(Get(args.query, "minSalary"))
    /\ result.type = "return"

C10_WitnessNoEquity ==
    /\ JobFilterRan /\ Len(stmts) = 1
    /\ Get(args.query, "hasEquity") = Bool(FALSE)
    /\ result.type = "return"
    /\ \E r \in result.value : r.equity = 0
    /\ \E r \in result.value : r.equity > 0

\* the search string of a call, when it applies one
SearchKey == IF op = "Company.filter" THEN "name" ELSE "title"

\* C11: an applied name or title criterion gives the predicate
\* `name ILIKE $n` / `title ILIKE $n`; the value bound at position n is the
\* substring with one % in front and one behind; the characters of the
\* substring are not in the statement's text.
C11_SubstringBoundWithWildcards ==
    (Issued /\ Truthy(Get(args.query, SearchKey))) =>
        LET raw == Get(args.query, SearchKey).v
            sql == stmts[1].sql
            values == stmts[1].values
            preds == PredicatesOf(sql)
        IN  /\ preds # <<>>
            /\ \E n \in 1..Len(values) :
                  /\ preds[1] = <<SearchKey, " ", "ILIKE", " ", "$">> \o NumToStr(n)
                  /\ values[n].t = "string"
                  /\ values[n].v = <<"%">> \o raw \o <<"%">>
            /\ \A i \in 1..Len(raw) : IsDigit(raw[i]) \/ Count(sql, raw[i]) = 0

C11_Witness ==
    /\ JobFilterRan /\ Len(stmts) = 1
    /\ Get(args.query, "title") = Str(<<"J">>)
    /\ result.type = "return"

\* a stored row meets the criteria of a call, the employee bounds inclusive
\* and the salary bound strict
NameContains(text, x) ==
    \E i \in 1..Len(text) : LowerText(SubSeq(text, i, i + Len(x.v) - 1)) = LowerText(x.v)

MeetsCompanyCriteria(row, q) ==
    /\ Truthy(Get(q, "name")) => NameContains(row.name, Get(q, "name"))
    /\ Truthy(Get(q, "minEmployees")) => row.num_employees >= Get(q, "minEmployees").v
    /\ Truthy(Get(q, "maxEmployees")) => row.num_employees <= Get(q, "maxEmployees").v

MeetsJobCriteria(row, q) ==
    /\ Truthy(Get(q, "title")) => NameContains(row.title, Get(q, "title"))
    /\ Truthy(Get(q, "minSalary")) => row.salary > Get(q, "minSalary").v
    /\ Get(q, "hasEquity") = Bool(TRUE) => row.equity > 0

HasPredicate(sql, values, words, x) ==
    \E i \in 1..Len(PredicatesOf(sql)) : \E n \in 1..Len(values) :
        /\ PredicatesOf(sql)[i] = words \o <<"$">> \o NumToStr(n)
        /\ values[n] = x

\* C12: minEmployees gives `num_employees >= $n`, maxEmployees gives
\* `num_employees <= $n`, minSalary gives the strict `salary > $n`, each bound
\* to the number as supplied; the rows returned are those within the
\* inclusive employee bounds, and those with a salary strictly above minSalary.
C12_BoundsInclusiveExceptSalary ==
    Issued =>
        LET sql == stmts[1].sql
            values == stmts[1].values
            q == args.query
        IN  /\ (CompanyFilterRan /\ Truthy(Get(q, "minEmployees"))) =>
                   HasPredicate(sql, values, <<"num_employees", " ", ">=", " ">>,
                                Get(q, "minEmployees"))
            /\ (CompanyFilterRan /\ Truthy(Get(q, "maxEmployees"))) =>
                   HasPredicate(sql, values, <<"num_employees", " ", "<=", " ">>,
                                Get(q, "maxEmployees"))
            /\ (JobFilterRan /\ Truthy(Get(q, "minSalary"))) =>
                   HasPredicate(sql, values, <<"salary", " ", ">", " ">>,
                                Get(q, "minSalary"))
            /\ (CompanyFilterRan /\ result.type = "return") =>
                   result.value
                       = {CompanyRow(r) : r \in {x \in companies : MeetsCompanyCriteria(x, q)}}
            /\ (JobFilterRan /\ result.type = "return") =>
                   result.value
                       = {JobRow(r) : r \in {x \in jobs : MeetsJobCriteria(x, q)}}

\* a job whose salary equals minSalary is left out, another is returned
C12_Witness ==
    /\ JobFilterRan /\ Len(stmts) = 1
    /\ Get(args.query, "minSalary") = Num(2)
    /\ result.type = "return"
    /\ \E r \in jobs : r.salary = 2 /\ JobRow(r) \notin result.value

C12_WitnessInclusive ==
    /\ CompanyFilterRan /\ Len(stmts) = 1
    /\ Get(args.query, "minEmployees") = Num(2)
    /\ Get(args.query, "maxEmployees") = Num(2)
    /\ result.type = "return"
    /\ \E r \in result.value : r.numEmployees = 2

\* the stored rows that meet the criteria of the call
Matching ==
    IF op = "Company.filter"
    THEN {x \in companies : MeetsCompanyCriteria(x, args.query)}
    ELSE {x \in jobs : MeetsJobCriteria(x, args.query)}

\* C13: a filter statement that runs and matches no row ends in
\* NotFoundError, never in an empty list: a filter call that returns, returns
\* at least one row.
C13_NoRowsIsNotFound ==
    Issued =>
        /\ (SelectIsValid(stmts[1].sql, stmts[1].values) /\ Matching = {}) =>
               result = Thrown(NotFoundError)
        /\ result.type = "return" => (result.value # {} /\ Matching # {})
        /\ result = Thrown(NotFoundError) => Matching = {}

C13_Witness ==
    /\ JobFilterRan /\ Len(stmts) = 1
    /\ Get(args.query, "title") = Str(<<"z">>)
    /\ result = Thrown(NotFoundError)

----------------------------------------------------------------------------
(* Properties of update and remove *)

JobUpdateRan == op = "Job.update"
CompanyUpdateRan == op = "Company.update"
JobRemoveRan == op = "Job.remove"
UpdateRan == JobUpdateRan \/ CompanyUpdateRan

TablesUnchanged == companies' = companies /\ jobs' = jobs

\* C14: Job.update and Company.update given an empty data object end in
\* BadRequestError with no statement handed to the store and both tables as
\* they were before the call.
C14_EmptyUpdateIsRejectedBeforeStore ==
    [][(op = "idle" /\ op' \in {"Job.update", "Company.update"} /\ args'.data = <<>>)
          => /\ result' = Thrown(BadRequestError)
             /\ stmts' = <<>>
             /\ TablesUnchanged]_vars

C14_Witness ==
    JobUpdateRan /\ args.data = <<>> /\ result = Thrown(BadRequestError)

C14_WitnessCompany ==
    CompanyUpdateRan /\ args.data = <<>> /\ result = Thrown(BadRequestError)

\* the fields an update may name, with the column each one is stored in
JobFields == {<<title, "title">>, <<salary, "salary">>, <<equity, "equity">>}

CompanyFields ==
    {<<name, "name">>, <<description, "description">>,
     <<numEmployees, "num_employees">>, <<logoUrl, "logo_url">>}

NumberFields == {salary, equity, numEmployees}

\* data that names at least one field, only fields of the resource, with a
\* number for each numeric field
ValidData(data, fields) ==
    /\ data # <<>>
    /\ DistinctKeys(data)
    /\ \A i \in 1..Len(data) :
          /\ \E f \in fields : f[1] = data[i].k
          /\ data[i].k \in NumberFields => data[i].v.t = "number"

\* an id as a number, given as such or as its decimal text
IsId(id) == id.t = "number" \/ (id.t = "string" /\ IsNumeral(id.v))
IdValue(id) == IF id.t = "number" THEN id.v ELSE StrToNum(id.v)

NoSuchJob(id) == IsId(id) /\ \A row \in jobs : row.id # IdValue(id)
NoSuchCompany(handle) == handle.t = "string" /\ \A row \in companies : row.handle # handle.v

\* the call ended in NotFoundError after its one statement, nothing changed
Missed(kind) ==
    /\ result' = Thrown(NotFoundError)
    /\ Len(stmts') = 1
    /\ stmts'[1].sql[1] = kind
    /\ TablesUnchanged

\* C15: an update with valid data of an id or handle that no row has, and a
\* remove of an id that no row has, end in NotFoundError after exactly one
\* UPDATE (DELETE) statement, and every stored row is as before.
C15_AbsentTargetIsNotFound ==
    [][op = "idle" =>
          /\ (op' = "Job.update" /\ ValidData(args'.data, JobFields)
                 /\ NoSuchJob(args'.id)) => Missed("UPDATE")
          /\ (op' = "Company.update" /\ ValidData(args'.data, CompanyFields)
                 /\ NoSuchCompany(args'.handle)) => Missed("UPDATE")
          /\ (op' = "Job.remove" /\ NoSuchJob(args'.id)) => Missed("DELETE")]_vars

C15_Witness ==
    /\ JobUpdateRan /\ args.id = Num(0) /\ Len(args.data) = 2
    /\ result = Thrown(NotFoundError) /\ Len(stmts) = 1

C15_WitnessRemove ==
    JobRemoveRan /\ args.id = Num(0) /\ result = Thrown(NotFoundError)

\* the value a field holds once stored
AsStored(key, v) ==
    IF key \in NumberFields
    THEN (IF v.t = "number" THEN v.v ELSE StrToNum(v.v))
    ELSE JsToString(v)

\* new is old with exactly the fields named in data replaced by their values
ChangedAsNamed(old, new, data, fields) ==
    /\ DOMAIN new = DOMAIN old
    /\ \A f \in fields :
          new[f[2]] = IF \E i \in 1..Len(data) : data[i].k = f[1]
                      THEN AsStored(f[1], Get(data, f[1]))
                      ELSE old[f[2]]
    /\ \A column \in DOMAIN old \ {f[2] : f \in fields} : new[column] = old[column]

\* C16: an update that returns has changed, in the one row with the given
\* id or handle, exactly the fields named in data to the values given; the
\* row's other fields, all other rows and the other table are as before, and
\* the row returned is the stored row after the update.
C16_UpdateChangesOnlyNamedFields ==
    [][op = "idle" =>
          /\ (op' = "Job.update" /\ result'.type = "return") =>
                \E old \in jobs, new \in jobs' :
                    /\ old.id = IdValue(args'.id)
                    /\ ChangedAsNamed(old, new, args'.data, JobFields)
                    /\ jobs' = (jobs \ {old}) \cup {new}
                    /\ companies' = companies
                    /\ result'.value =
                           [id |-> new.id, title |-> new.title, salary |-> new.salary,
                            equity |-> new.equity, companyHandle |-> new.company_handle]
          /\ (op' = "Company.update" /\ result'.type = "return") =>
                \E old \in companies, new \in companies' :
                    /\ old.handle = args'.handle.v
                    /\ ChangedAsNamed(old, new, args'.data, CompanyFields)
                    /\ companies' = (companies \ {old}) \cup {new}
                    /\ jobs' = jobs
                    /\ result'.value =
                           [handle |-> new.handle, name |-> new.name,
                            description |-> new.description,
                            numEmployees |-> new.num_employees,
                            logoUrl |-> new.logo_url]]_vars

\* one field of job 1 changed, the other job rows still there
C16_Witness ==
    /\ JobUpdateRan /\ args.id = Num(1) /\ Len(args.data) = 1
    /\ result.type = "return"
    /\ result.value.salary = 2 /\ result.value.title = <<"j", "1">>
    /\ Cardinality(jobs) = 3

C16_WitnessCompany ==
    /\ CompanyUpdateRan /\ result.type = "return"
    /\ result.value.logoUrl = <<"u", "9">> /\ result.value.numEmployees = 2

\* the check a call makes before it builds its statement
ValidationFails ==
    \/ UpdateRan /\ args.data = <<>>
    \/ /\ CompanyFilterRan
       /\ Get(args.query, "minEmployees") # Undef
       /\ Get(args.query, "maxEmployees") # Undef
       /\ Get(args.query, "minEmployees").v > Get(args.query, "maxEmployees").v

\* the store's verdict on a statement
Refused(stmt) ==
    CASE stmt.sql[1] = "SELECT" -> ~SelectIsValid(stmt.sql, stmt.values)
      [] stmt.sql[1] = "UPDATE" -> ~UpdateIsValid(stmt.sql, stmt.values)
      [] OTHER -> TRUE

\* C18: a filter or update call hands the store no statement when its
\* validation fails and exactly one otherwise; when the store refuses that
\* statement the call ends in the store's error, with no second statement.
C18_SingleShot ==
    (FilterRan \/ UpdateRan) =>
        /\ Len(stmts) = IF ValidationFails THEN 0 ELSE 1
        /\ ValidationFails => result = Thrown(BadRequestError)
        /\ (Len(stmts) >= 1 /\ Refused(stmts[1])) => result = Thrown(StoreError)
        /\ result = Thrown(StoreError) => (stmts # <<>> /\ Refused(stmts[1]))

C18_Witness ==
    /\ JobUpdateRan /\ result = Thrown(StoreError)
    /\ Len(stmts) = 1 /\ args.data[1].k = salary

C18_WitnessFilter ==
    CompanyFilterRan /\ result = Thrown(StoreError) /\ Len(stmts) = 1

----------------------------------------------------------------------------
(* Properties of the guarded routes *)

GuardedRoute == op \in {"POST /jobs", "PATCH /jobs/:id", "DELETE /jobs/:id"}

\* res.locals.user exists and its isAdmin is truthy
IsAdminUser(locals) ==
    /\ Get(locals, "user").t = "object"
    /\ Truthy(Get(Get(locals, "user").v, "isAdmin"))

HandlerSteps == {"jsonschema.validate", "Job.create", "Job.update", "Job.remove"}

HandlerReached ==
    pc = "handler" \/ \E i \in 1..Len(steps) : steps[i] \in HandlerSteps

\* C19: on POST /jobs, PATCH /jobs/:id and DELETE /jobs/:id the handler (body
\* validation, then the model call) is reached only after ensureLoggedIn and
\* then ensureIsAdmin have run for a requester that exists and is an admin; a
\* request of anyone else ends in UnauthorizedError with no validation, no
\* model call and no statement.
C19_ModelCallOnlyForAdmins ==
    GuardedRoute =>
        /\ HandlerReached =>
              /\ IsAdminUser(args.locals)
              /\ Len(steps) >= 2
              /\ steps[1] = "ensureLoggedIn" /\ steps[2] = "ensureIsAdmin"
        /\ (\E i \in 1..Len(steps) : steps[i] \in {"Job.create", "Job.update", "Job.remove"})
              => steps[Len(steps)] \in {"Job.create", "Job.update", "Job.remove"}
        /\ stmts # <<>> => HandlerReached
        /\ (pc = "done" /\ ~IsAdminUser(args.locals)) =>
              /\ result = Thrown(UnauthorizedError)
              /\ ~HandlerReached
              /\ stmts = <<>>

\* a plain user's PATCH turned away after both guards ran
C19_Witness ==
    /\ op = "PATCH /jobs/:id" /\ pc = "done"
    /\ Get(args.locals, "user").t = "object"
    /\ ~IsAdminUser(args.locals)
    /\ steps = <<"ensureLoggedIn", "ensureIsAdmin">>
    /\ result = Thrown(UnauthorizedError)

C19_WitnessAnonymous ==
    /\ op = "POST /jobs" /\ pc = "done" /\ args.locals = <<>>
    /\ steps = <<"ensureLoggedIn">>
    /\ result = Thrown(UnauthorizedError)

C19_WitnessAdmin ==
    /\ op = "DELETE /jobs/:id" /\ pc = "done" /\ IsAdminUser(args.locals)
    /\ steps = <<"ensureLoggedIn", "ensureIsAdmin", "Job.remove">>
    /\ result.type = "return"

\* C20: ensureIsAdmin hands next an UnauthorizedError for every res.locals
\* whose user is not an admin (no user, isAdmin false) and hands it no error
\* when the user is an admin.
C20_NonAdminIsUnauthorized ==
    op = "ensureIsAdmin" =>
        result = IF IsAdminUser(args.locals) THEN Returned(NoValue)
                 ELSE Thrown(UnauthorizedError)

\* C20, where a user is attached: a user who is no admin gets
\* UnauthorizedError, an admin passes.
C20_AttachedUserIsChecked ==
    (op = "ensureIsAdmin" /\ Get(args.locals, "user").t = "object") =>
        result = IF IsAdminUser(args.locals) THEN Returned(NoValue)
                 ELSE Thrown(UnauthorizedError)

C20_WitnessNoUser ==
    op = "ensureIsAdmin" /\ args.locals = <<>> /\ result = Thrown(TypeError)

----------------------------------------------------------------------------
(* Further properties of the filter queries and the update statements *)

\* the criteria whose presence is decided by truthiness
TruthinessKeys == {"name", "title", "minEmployees", "maxEmployees", "minSalary"}

IsFalsyCriterion(p) == p.k \in TruthinessKeys /\ ~Truthy(p.v)

\* the criteria object without the criteria supplied with a falsy value
WithoutFalsy(q) == SelectSeq(q, LAMBDA p : ~IsFalsyCriterion(p))

\* what a filter call amounts to for the caller
FilterCallOf(kind, q) ==
    IF kind = "Company.filter"
    THEN IF CompanyFilterRejects(q)
         THEN [result |-> Thrown(BadRequestError), stmts |-> <<>>]
         ELSE [result |-> FilterOutcome(DbQuery(CompanyFilterQuery(q).sql,
                                                CompanyFilterQuery(q).values)),
               stmts |-> <<CompanyFilterQuery(q)>>]
    ELSE [result |-> FilterOutcome(DbQuery(JobFilterQuery(q).sql, JobFilterQuery(q).values)),
          stmts |-> <<JobFilterQuery(q)>>]

\* C25: a criterion supplied with a falsy value (0, the empty string) adds
\* neither a predicate nor a bound value, and the call ends exactly as the call
\* without that criterion does.
C25_FalsyCriterionIsAbsent ==
    FilterRan =>
        /\ Issued =>
              /\ \A i \in 1..Len(args.query) :
                    IsFalsyCriterion(args.query[i]) =>
                        \A j \in 1..Len(PredicatesOf(stmts[1].sql)) :
                            KindOf(PredicatesOf(stmts[1].sql)[j]) # args.query[i].k
              /\ Len(stmts[1].values)
                     = Cardinality({i \in 1..Len(args.query) :
                                       /\ args.query[i].k \in TruthinessKeys
                                       /\ Truthy(args.query[i].v)})
        /\ result = FilterCallOf(op, WithoutFalsy(args.query)).result
        /\ stmts = FilterCallOf(op, WithoutFalsy(args.query)).stmts

\* the part of C25 about the statement: no predicate and no value for a
\* falsy criterion
C25_FalsyCriterionAddsNothing ==
    Issued =>
        /\ \A i \in 1..Len(args.query) :
              IsFalsyCriterion(args.query[i]) =>
                  \A j \in 1..Len(PredicatesOf(stmts[1].sql)) :
                      KindOf(PredicatesOf(stmts[1].sql)[j]) # args.query[i].k
        /\ Len(stmts[1].values)
               = Cardinality({i \in 1..Len(args.query) :
                                 /\ args.query[i].k \in TruthinessKeys
                                 /\ Truthy(args.query[i].v)})

\* a maximum of 0 is compared with the minimum although it adds no predicate
C25_WitnessZeroMaximum ==
    /\ CompanyFilterRan
    /\ Get(args.query, "minEmployees") = Num(3)
    /\ Get(args.query, "maxEmployees") = Num(0)
    /\ result = Thrown(BadRequestError)

\* C27: the statement of an update carries the placeholders $1..$(n+1) for
\* the n values of the data: $1..$n in the SET list in order, $(n+1) in the
\* key predicate, which no SET assignment uses; the bound list has n+1
\* elements, the last one the id or handle.
C27_KeyTakesLastPlaceholder ==
    (UpdateRan /\ Len(stmts) = 1) =>
        LET sql == stmts[1].sql
            values == stmts[1].values
            n == Len(args.data)
            set == Between(sql, "SET", "WHERE")
            key == Between(sql, "WHERE", "RETURNING")
        IN  /\ Len(values) = n + 1
            /\ values = ObjectValues(args.data)
                            \o <<IF JobUpdateRan THEN args.id ELSE args.handle>>
            /\ Placeholders(sql) = [i \in 1..(n + 1) |-> i]
            /\ Placeholders(set) = [i \in 1..n |-> i]
            /\ Placeholders(key) = <<n + 1>>
            /\ key = <<IF JobUpdateRan THEN "id" ELSE "handle", " ", "=", " ", "$">>
                         \o NumToStr(n + 1)

C27_Witness ==
    /\ JobUpdateRan /\ Len(stmts) = 1 /\ Len(args.data) = 2
    /\ stmts[1].values[3] = Num(1)
    /\ result.type = "return"

\* C28: Job.filter adds the equity predicate only for hasEquity === true; a
\* hasEquity that is truthy but not the boolean true adds none, and a call
\* with no other criterion applied issues a statement without any predicate.
C28_EquityOnlyForBooleanTrue ==
    (JobFilterRan /\ Len(stmts) = 1) =>
        LET preds == PredicatesOf(stmts[1].sql)
            hasEquity == Get(args.query, "hasEquity")
        IN  /\ (\E i \in 1..Len(preds) : preds[i][1] = "equity") <=> hasEquity = Bool(TRUE)
            /\ (/\ Truthy(hasEquity) /\ hasEquity # Bool(TRUE)
                /\ ~Truthy(Get(args.query, "title"))
                /\ ~Truthy(Get(args.query, "minSalary"))) =>
                   /\ preds = <<>>
                   /\ stmts[1].values = <<>>
                   /\ stmts[1].sql = JobFirstPartOfQuery \o <<" ", " ">>
                                         \o JobLastPartOfQuery

C28_Witness ==
    /\ JobFilterRan /\ Len(stmts) = 1
    /\ args.query = <<[k |-> "hasEquity", v |-> Str(<<"t", "r", "u", "e">>)]>>
    /\ PredicatesOf(stmts[1].sql) = <<>>

\* C29: Company.filter's check fails only for minEmployees > maxEmployees:
\* with equal bounds the call passes and issues both the >= and the <=
\* predicate bound to that number; with only one bound supplied it never
\* fails the check.
C29_OnlyInvertedBoundsRejected ==
    CompanyFilterRan =>
        LET min == Get(args.query, "minEmployees")
            max == Get(args.query, "maxEmployees")
        IN  /\ (min # Undef /\ min = max) =>
                  /\ Len(stmts) = 1
                  /\ HasPredicate(stmts[1].sql, stmts[1].values,
                                  <<"num_employees", " ", ">=", " ">>, min)
                  /\ HasPredicate(stmts[1].sql, stmts[1].values,
                                  <<"num_employees", " ", "<=", " ">>, max)
            /\ (min = Undef \/ max = Undef) => result # Thrown(BadRequestError)

\* C29 for bounds other than 0
C29_NonZeroEqualBoundsPass ==
    CompanyFilterRan =>
        LET min == Get(args.query, "minEmployees")
            max == Get(args.query, "maxEmployees")
        IN  /\ (min # Undef /\ min = max /\ min # Num(0)) =>
                  /\ Len(stmts) = 1
                  /\ HasPredicate(stmts[1].sql, stmts[1].values,
                                  <<"num_employees", " ", ">=", " ">>, min)
                  /\ HasPredicate(stmts[1].sql, stmts[1].values,
                                  <<"num_employees", " ", "<=", " ">>, max)
            /\ (min = Undef \/ max = Undef) => result # Thrown(BadRequestError)

C29_WitnessZeroBounds ==
    /\ CompanyFilterRan
    /\ Get(args.query, "minEmployees") = Num(0)
    /\ Get(args.query, "maxEmployees") = Num(0)
    /\ Len(stmts) = 1 /\ stmts[1].values = <<>>
    /\ result = Thrown(StoreError)

----------------------------------------------------------------------------
(* Properties of creation, the middleware and the routes *)

\* the authorization headers whose token verifies
VerifiableHeaders ==
    { <<"B", "e", "a", "r", "e", "r", " ", "t", "1">>,
      <<"b", "e", "a", "r", "e", "r", " ", "t", "a", " ">>,
      <<"t", "1">> }

\* C21: authenticateJWT calls next exactly once and with no error, whatever
\* the authorization header; res.locals.user is set, to the token's payload,
\* only when a header was sent and its token verifies, and res.locals is left
\* as it was otherwise.
C21_NextOnceWithoutError ==
    op = "authenticateJWT" =>
        LET authHeader == Get(args.headers, "authorization")
            went == result.value
            verifies == authHeader.t = "string" /\ authHeader.v \in VerifiableHeaders
        IN  /\ went.next = <<NoError>>
            /\ Get(went.locals, "user") # Undef => verifies
            /\ verifies => \E s \in Signed : Get(went.locals, "user") = s.payload
            /\ ~verifies => went.locals = args.locals

\* a token that does not verify: next() and no user
C21_Witness ==
    /\ op = "authenticateJWT"
    /\ Get(args.headers, "authorization") = Str(<<"B", "e", "a", "r", "e", "r", " ", "x", "x">>)
    /\ result.value.next = <<NoError>>
    /\ Get(result.value.locals, "user") = Undef

C21_WitnessUser ==
    /\ op = "authenticateJWT"
    /\ Get(args.headers, "authorization").t = "string"
    /\ Get(result.value.locals, "user") = User(<<"a">>, Bool(TRUE))

JobsRoute == op \in {"GET /jobs", "POST /jobs", "PATCH /jobs/:id"}

ModelSteps == {"Job.filter", "Job.findAll", "Job.create", "Job.update"}

\* the handler of the route has run
JobsHandlerRan ==
    pc = "done" /\ (op = "GET /jobs" \/ IsAdminUser(args.locals))

\* the request's query or body does not pass its schema
FailsValidation ==
    CASE op = "GET /jobs" -> ~ValidJobSearch(Converted(args.query))
      [] op = "POST /jobs" -> ~ValidNewJob(args.body)
      [] op = "PATCH /jobs/:id" -> ~ValidJobUpdate(args.body)

\* C22: in GET /jobs, POST /jobs and PATCH /jobs/:id the schema validation
\* comes before any model call; a request that fails it ends in
\* BadRequestError with no call of Job.filter, Job.findAll, Job.create or
\* Job.update and no statement.
C22_ValidationBeforeModel ==
    JobsRoute =>
        /\ \A i \in 1..Len(steps) :
              steps[i] \in ModelSteps =>
                  \E j \in 1..(i - 1) : steps[j] = "jsonschema.validate"
        /\ (JobsHandlerRan /\ FailsValidation) =>
              /\ result = Thrown(BadRequestError)
              /\ \A i \in 1..Len(steps) : steps[i] \notin ModelSteps
              /\ stmts = <<>>

\* the query { bla: "bla" } refused
C22_Witness ==
    /\ op = "GET /jobs" /\ pc = "done"
    /\ Get(args.query, "bla") # Undef
    /\ steps = <<"jsonschema.validate">>
    /\ result = Thrown(BadRequestError)

C22_WitnessBody ==
    /\ op = "POST /jobs" /\ pc = "done"
    /\ IsAdminUser(args.locals)
    /\ ~ValidNewJob(args.body)
    /\ result = Thrown(BadRequestError)

C22_WitnessValid ==
    /\ op = "GET /jobs" /\ pc = "done"
    /\ steps = <<"jsonschema.validate", "Job.filter">>
    /\ result.type = "return"

UniqueHandles == \A c1, c2 \in companies : c1.handle = c2.handle => c1 = c2

Inserts(issued) == \E i \in 1..Len(issued) : issued[i].sql[1] = "INSERT"

\* C23: Company.create for a handle that is already stored throws
\* BadRequestError, hands the store no INSERT and leaves both tables as they
\* were; through every sequence of creations and removals no two stored
\* companies share a handle.
C23_DuplicateHandleRejected ==
    /\ []UniqueHandles
    /\ [][(/\ op = "idle" /\ op' = "Company.create"
           /\ \E row \in companies : Str(row.handle) = Get(args'.data, handleField))
             => /\ result' = Thrown(BadRequestError)
                /\ ~Inserts(stmts')
                /\ TablesUnchanged]_vars

C23_Witness ==
    /\ op = "Company.create"
    /\ Get(args.data, handleField) = Str(<<"c", "1">>)
    /\ result = Thrown(BadRequestError)
    /\ Len(stmts) = 1

\* a second creation of the handle created before
C23_WitnessCreatedTwice ==
    /\ op = "Company.create"
    /\ Get(args.data, handleField) = Str(<<"c", "9">>)
    /\ result = Thrown(BadRequestError)
    /\ writes > 0

C23_WitnessCreated ==
    /\ op = "Company.create" /\ result.type = "return"
    /\ \E row \in companies : row.handle = <<"c", "9">>
    /\ Inserts(stmts)

\* C24: Job.create for a companyHandle that no stored company has throws
\* BadRequestError, hands the store no INSERT and leaves the stored jobs as
\* they were; a job row is added only by an INSERT issued after the check
\* that found the company, and the row names that company.
C24_JobOnlyForExistingCompany ==
    [][(op = "idle" /\ op' = "Job.create")
          => LET handle == Get(args'.data, companyHandle)
                 exists == \E row \in companies : Str(row.handle) = handle
             IN  /\ ~exists => /\ result' = Thrown(BadRequestError)
                               /\ ~Inserts(stmts')
                               /\ TablesUnchanged
                 /\ Inserts(stmts') =>
                       /\ exists
                       /\ Len(stmts') = 2
                       /\ stmts'[1] = HandleExistsQuery(handle)
                       /\ stmts'[2].sql[1] = "INSERT"
                 /\ jobs' # jobs =>
                       /\ Inserts(stmts')
                       /\ jobs \subseteq jobs'
                       /\ \A row \in jobs' \ jobs : Str(row.company_handle) = handle]_vars

C24_Witness ==
    /\ op = "Job.create"
    /\ Get(args.data, companyHandle) = Str(<<"n", "o">>)
    /\ result = Thrown(BadRequestError)
    /\ Len(stmts) = 1

\* a job created for a company that was itself created before
C24_WitnessCreated ==
    /\ op = "Job.create" /\ result.type = "return"
    /\ Get(args.data, companyHandle) = Str(<<"c", "9">>)
    /\ \E row \in jobs : row.company_handle = <<"c", "9">>

\* a creation refused because the company has been removed
C24_WitnessRemoved ==
    /\ op = "Job.create"
    /\ Get(args.data, companyHandle) = Str(<<"c", "1">>)
    /\ result = Thrown(BadRequestError)

\* the criteria of a GET /jobs query that are truthy once converted
TruthyCriteria(query) ==
    {k \in {"title", "minSalary", "hasEquity"} : Truthy(Get(Converted(query), k))}

StepTaken(step) == \E i \in 1..Len(steps) : steps[i] = step

\* C26: GET /jobs calls Job.filter only when title, minSalary or hasEquity is
\* truthy after conversion, and then the statement carries a predicate for
\* each truthy criterion, so at least one; with none truthy it calls
\* Job.findAll, which returns every stored job without NotFoundError.
C26_RouteFilterHasPredicate ==
    (op = "GET /jobs" /\ pc = "done") =>
        LET truthy == TruthyCriteria(args.query)
            query == Converted(args.query)
        IN  /\ StepTaken("Job.filter") =>
                  /\ truthy # {}
                  /\ Len(stmts) = 1
                  /\ Len(PredicatesOf(stmts[1].sql)) = Cardinality(truthy)
                  /\ Len(PredicatesOf(stmts[1].sql)) >= 1
                  /\ "title" \in truthy =>
                        HasPredicate(stmts[1].sql, stmts[1].values,
                                     <<"title", " ", "ILIKE", " ">>,
                                     LikePattern(Get(query, "title")))
                  /\ "minSalary" \in truthy =>
                        HasPredicate(stmts[1].sql, stmts[1].values,
                                     <<"salary", " ", ">", " ">>, Get(query, "minSalary"))
                  /\ "hasEquity" \in truthy =>
                        \E i \in 1..Len(PredicatesOf(stmts[1].sql)) :
                            PredicatesOf(stmts[1].sql)[i] = <<"equity", " ", ">", " ", "0">>
            /\ StepTaken("Job.findAll") =>
                  /\ truthy = {}
                  /\ ~StepTaken("Job.filter")
                  /\ result = Returned([status |-> 200,
                                        body |-> {JobRow(row) : row \in jobs}])
            /\ ~FailsValidation =>
                  IF truthy = {} THEN StepTaken("Job.findAll") ELSE StepTaken("Job.filter")

\* minSalary=0&hasEquity=false: nothing truthy once converted, every job listed
C26_Witness ==
    /\ op = "GET /jobs" /\ pc = "done"
    /\ Get(args.query, "minSalary") = Str(<<"0">>)
    /\ Get(args.query, "hasEquity") = Str(<<"f", "a", "l", "s", "e">>)
    /\ StepTaken("Job.findAll")
    /\ result.type = "return" /\ Cardinality(result.value.body) = Cardinality(jobs)

C26_WitnessFilter ==
    /\ op = "GET /jobs" /\ pc = "done"
    /\ Get(args.query, "hasEquity") = Str(<<"t", "r", "u", "e">>)
    /\ Get(args.query, "minSalary") = Str(<<"2">>)
    /\ StepTaken("Job.filter")
    /\ Len(PredicatesOf(stmts[1].sql)) = 2

\* the user attached is the one named in the route, or an admin
AdminOrSelf(locals, params) ==
    /\ Get(locals, "user").t = "object"
    /\ \/ Get(Get(locals, "user").v, "username") = Get(params, "username")
       \/ IsAdminUser(locals)

\* C30: ensureIsAdminOrSelf calls next with no error exactly when the user
\* attached has the username of the route or a truthy isAdmin; otherwise it
\* calls next with an error, UnauthorizedError for a user who is neither, and
\* the handler's model call is not reached.
C30_AdminOrSelfOnly ==
    /\ op = "ensureIsAdminOrSelf" =>
          /\ result.type = "return" <=> AdminOrSelf(args.locals, args.params)
          /\ ~AdminOrSelf(args.locals, args.params) =>
                /\ result.type = "throw" /\ result.error # NoError
                /\ Get(args.locals, "user") # Undef =>
                       result = Thrown(UnauthorizedError)
    /\ op = "GET /users/:username" =>
          /\ (pc = "userHandler" \/ StepTaken("User.get")) <=>
                 (StepTaken("ensureIsAdminOrSelf") /\ AdminOrSelf(args.locals, args.params))
          /\ (pc = "done" /\ ~AdminOrSelf(args.locals, args.params)) =>
                /\ result = Thrown(UnauthorizedError)
                /\ ~StepTaken("User.get")

\* a user asking for another user's resource
C30_Witness ==
    /\ op = "GET /users/:username" /\ pc = "done"
    /\ args.locals = <<[k |-> "user", v |-> User(<<"u", "1">>, Bool(FALSE))]>>
    /\ Get(args.params, "username") = Str(<<"u", "2">>)
    /\ steps = <<"ensureLoggedIn", "ensureIsAdminOrSelf">>
    /\ result = Thrown(UnauthorizedError)

C30_WitnessSelf ==
    /\ op = "GET /users/:username" /\ pc = "done"
    /\ ~IsAdminUser(args.locals)
    /\ steps = <<"ensureLoggedIn", "ensureIsAdminOrSelf", "User.get">>

C30_WitnessNoUser ==
    /\ op = "ensureIsAdminOrSelf" /\ args.locals = <<>>
    /\ result = Thrown(TypeError)

====
